---- MODULE Spec2Model ----
(***************************************************************************)
(* Model of the RISC-V external-debug drivers of CORE-V-WALLY:             *)
(*   bin/hw_debug_interface.py   the interactive (telnet) session          *)
(*   bin/openocd_tcl_wrapper.py  the automation (tcl) session, class       *)
(*                               OpenOCD, and the vector emitter, class    *)
(*                               SVF_Generator                             *)
(* Every engine call is one action.  A call threads a "world" record       *)
(*   [dm, svf, log, exc, ret]                                              *)
(* through the transport operations it performs: dm is the debug module    *)
(* behind a live transport, svf the vector emitter object, log the DMI     *)
(* operations issued (or emitted) so far in the call,                      *)
(* exc the Python exception that ended the call ("none" while it runs) and *)
(* ret the value of the last expression evaluated.                         *)
(*                                                                         *)
(* Numbers wider than TLC's integers (register values, DMI payloads) are   *)
(* held as their hexadecimal digits, most significant first, without       *)
(* leading zeros; Python strings of hexadecimal text are records           *)
(* [pfx, d]: whether the text starts with "0x", and its digits.            *)
(***************************************************************************)
EXTENDS Integers, Sequences, FiniteSets, TLC

VARIABLES
    tr,      \* the transport of the session: "telnet", "tcl" or "svf"
    XLEN,    \* the negotiated width: XLEN (telnet), LLEN (tcl), XLEN (svf)
    dm,      \* the debug module behind the live transports
    svf,     \* the vector emitter: [XLEN, INSTR, DCSR, writeout, out]
    hist,    \* the engine calls made so far, in order: for each its name and
             \* arguments, the choices of the debug module during it
             \* (oracle), the DMI operations it issued (log), the exception
             \* it raised (exc, "none" if it returned) and the value it
             \* returned (ret)
    sock,    \* the connection of the live session: [pc, open, inbox, data, turn],
             \* pc "receiving" while OpenOCD.receive loops, inbox the bytes
             \* the peer sent that were not yet received, data the bytes
             \* received so far, turn the parity of the turns of the loop
             \* that received nothing
    poll     \* check_abstrcmderr taken one turn of its loop at a time:
             \* [pc, abstractcs, slept, ret], pc "loop" while the call is in
             \* progress, abstractcs the last status read, slept whether the
             \* call has slept, ret the value the last call returned

vars == <<tr, XLEN, dm, svf, hist, sock, poll>>

None == "None"

(***************************************************************************)
(* Hexadecimal text and wide integers.                                     *)
(***************************************************************************)
HexDigit == 0..15

RECURSIVE Norm(_)
\* The digits of a number without leading zeros; zero is <<0>>.
Norm(d) ==
    IF Len(d) = 0 THEN <<0>>
    ELSE IF Len(d) > 1 /\ Head(d) = 0 THEN Norm(Tail(d))
    ELSE d

RECURSIVE Zeros(_)
Zeros(n) == IF n <= 0 THEN <<>> ELSE <<0>> \o Zeros(n - 1)

\* int(s, 16): the "0x" prefix and leading zeros do not change the number.
PyInt16(s) == Norm(s.d)

\* hex(n): "0x" and the digits of n without leading zeros.
PyHex(n) == [pfx |-> TRUE, d |-> Norm(n)]

\* s.replace("0x", "")
Replace0x(s) == [pfx |-> FALSE, d |-> s.d]

\* A text left as it is, where zfill(8) pads it.
Zfill8_unpadded(s) == s

\* s.zfill(8) of a text without prefix: left-padded with "0" to 8 characters.
Zfill8(s) == [pfx |-> s.pfx, d |-> Zeros(8 - Len(s.d)) \o s.d]

\* a + b of two texts
PyConcat(a, b) == [pfx |-> a.pfx, d |-> a.d \o b.d]

\* f"0x{data}"
Fmt0x(s) == [pfx |-> TRUE, d |-> s.d]

\* n >> (4 * k): the digits of n without its k last ones.
ShrDigits(n, k) == IF Len(n) <= k THEN <<0>> ELSE SubSeq(n, 1, Len(n) - k)

\* n & 0xffffffff: the last eight digits of n.
And32(n) == IF Len(n) <= 8 THEN Norm(n) ELSE Norm(SubSeq(n, Len(n) - 7, Len(n)))

RECURSIVE DigitsToInt(_)
\* The value of a digit string that fits TLC's integers.
DigitsToInt(d) ==
    IF Len(d) = 0 THEN 0
    ELSE 16 * DigitsToInt(SubSeq(d, 1, Len(d) - 1)) + d[Len(d)]

RECURSIVE IntToDigits(_)
IntToDigits(i) ==
    IF i < 16 THEN <<i>> ELSE IntToDigits(i \div 16) \o <<i % 16>>

\* Bit k of a number held as digits.
BitOf(n, k) ==
    LET i == Len(n) - (k \div 4)
        p == IF k % 4 = 0 THEN 1 ELSE IF k % 4 = 1 THEN 2 ELSE IF k % 4 = 2 THEN 4 ELSE 8
    IN  IF i < 1 THEN 0 ELSE (n[i] \div p) % 2

RECURSIVE Pow2(_)
Pow2(k) == IF k = 0 THEN 1 ELSE 2 * Pow2(k - 1)

\* (x >> k) & m for integers that fit TLC's: m + 1 is a power of two.
ShrAnd(x, k, m) == (x \div Pow2(k)) % (m + 1)

(***************************************************************************)
(* Register catalog (openocd_tcl_wrapper.py).  A table row holds the       *)
(* digits of the hexadecimal text of the register number.                  *)
(***************************************************************************)
register_translations ==
    "FFLAGS" :> <<0,0,0,1>> @@ "FRM" :> <<0,0,0,2>> @@ "FCSR" :> <<0,0,0,3>> @@ "MSTATUS" :> <<0,3,0,0>> @@
    "MISA" :> <<0,3,0,1>> @@ "MEDELEG" :> <<0,3,0,2>> @@ "MIDELEG" :> <<0,3,0,3>> @@ "MIE" :> <<0,3,0,4>> @@
    "MTVEC" :> <<0,3,0,5>> @@ "MCOUNTEREN" :> <<0,3,0,6>> @@ "MENVCFG" :> <<0,3,0,10>> @@ "MSTATUSH" :> <<0,3,1,0>> @@
    "MENVCFGH" :> <<0,3,1,10>> @@ "MCOUNTINHIBIT" :> <<0,3,2,0>> @@ "MSCRATCH" :> <<0,3,4,0>> @@ "MEPC" :> <<0,3,4,1>> @@
    "MCAUSE" :> <<0,3,4,2>> @@ "MTVAL" :> <<0,3,4,3>> @@ "MIP" :> <<0,3,4,4>> @@ "PMPCFG0" :> <<0,3,10,0>> @@
    "PMPCFG1" :> <<0,3,10,1>> @@ "PMPCFG2" :> <<0,3,10,2>> @@ "PMPCFG3" :> <<0,3,10,3>> @@ "PMPCFG4" :> <<0,3,10,4>> @@
    "PMPCFG5" :> <<0,3,10,5>> @@ "PMPCFG6" :> <<0,3,10,6>> @@ "PMPCFG7" :> <<0,3,10,7>> @@ "PMPCFG8" :> <<0,3,10,8>> @@
    "PMPCFG9" :> <<0,3,10,9>> @@ "PMPCFGA" :> <<0,3,10,10>> @@ "PMPCFGB" :> <<0,3,10,11>> @@ "PMPCFGC" :> <<0,3,10,12>> @@
    "PMPCFGD" :> <<0,3,10,13>> @@ "PMPCFGE" :> <<0,3,10,14>> @@ "PMPCFGF" :> <<0,3,10,15>> @@ "PMPADDR0" :> <<0,3,11,0>> @@
    "PMPADDR1" :> <<0,3,11,1>> @@ "PMPADDR2" :> <<0,3,11,2>> @@ "PMPADDR3" :> <<0,3,11,3>> @@ "PMPADDR4" :> <<0,3,11,4>> @@
    "PMPADDR5" :> <<0,3,11,5>> @@ "PMPADDR6" :> <<0,3,11,6>> @@ "PMPADDR7" :> <<0,3,11,7>> @@ "PMPADDR8" :> <<0,3,11,8>> @@
    "PMPADDR9" :> <<0,3,11,9>> @@ "PMPADDRA" :> <<0,3,11,10>> @@ "PMPADDRB" :> <<0,3,11,11>> @@ "PMPADDRC" :> <<0,3,11,12>> @@
    "PMPADDRD" :> <<0,3,11,13>> @@ "PMPADDRE" :> <<0,3,11,14>> @@ "PMPADDRF" :> <<0,3,11,15>> @@ "PMPADDR10" :> <<0,3,12,0>> @@
    "PMPADDR11" :> <<0,3,12,1>> @@ "PMPADDR12" :> <<0,3,12,2>> @@ "PMPADDR13" :> <<0,3,12,3>> @@ "PMPADDR14" :> <<0,3,12,4>> @@
    "PMPADDR15" :> <<0,3,12,5>> @@ "PMPADDR16" :> <<0,3,12,6>> @@ "PMPADDR17" :> <<0,3,12,7>> @@ "PMPADDR18" :> <<0,3,12,8>> @@
    "PMPADDR19" :> <<0,3,12,9>> @@ "PMPADDR1A" :> <<0,3,12,10>> @@ "PMPADDR1B" :> <<0,3,12,11>> @@ "PMPADDR1C" :> <<0,3,12,12>> @@
    "PMPADDR1D" :> <<0,3,12,13>> @@ "PMPADDR1E" :> <<0,3,12,14>> @@ "PMPADDR1F" :> <<0,3,12,15>> @@ "PMPADDR20" :> <<0,3,13,0>> @@
    "PMPADDR21" :> <<0,3,13,1>> @@ "PMPADDR22" :> <<0,3,13,2>> @@ "PMPADDR23" :> <<0,3,13,3>> @@ "PMPADDR24" :> <<0,3,13,4>> @@
    "PMPADDR25" :> <<0,3,13,5>> @@ "PMPADDR26" :> <<0,3,13,6>> @@ "PMPADDR27" :> <<0,3,13,7>> @@ "PMPADDR28" :> <<0,3,13,8>> @@
    "PMPADDR29" :> <<0,3,13,9>> @@ "PMPADDR2A" :> <<0,3,13,10>> @@ "PMPADDR2B" :> <<0,3,13,11>> @@ "PMPADDR2C" :> <<0,3,13,12>> @@
    "PMPADDR2D" :> <<0,3,13,13>> @@ "PMPADDR2E" :> <<0,3,13,14>> @@ "PMPADDR2F" :> <<0,3,13,15>> @@ "PMPADDR30" :> <<0,3,14,0>> @@
    "PMPADDR31" :> <<0,3,14,1>> @@ "PMPADDR32" :> <<0,3,14,2>> @@ "PMPADDR33" :> <<0,3,14,3>> @@ "PMPADDR34" :> <<0,3,14,4>> @@
    "PMPADDR35" :> <<0,3,14,5>> @@ "PMPADDR36" :> <<0,3,14,6>> @@ "PMPADDR37" :> <<0,3,14,7>> @@ "PMPADDR38" :> <<0,3,14,8>> @@
    "PMPADDR39" :> <<0,3,14,9>> @@ "PMPADDR3A" :> <<0,3,14,10>> @@ "PMPADDR3B" :> <<0,3,14,11>> @@ "PMPADDR3C" :> <<0,3,14,12>> @@
    "PMPADDR3D" :> <<0,3,14,13>> @@ "PMPADDR3E" :> <<0,3,14,14>> @@ "PMPADDR3F" :> <<0,3,14,15>> @@ "TSELECT" :> <<0,7,10,0>> @@
    "TDATA1" :> <<0,7,10,1>> @@ "TDATA2" :> <<0,7,10,2>> @@ "TDATA3" :> <<0,7,10,3>> @@ "DCSR" :> <<0,7,11,0>> @@
    "DPC" :> <<0,7,11,1>> @@ "MVENDORID" :> <<0,15,1,1>> @@ "MARCHID" :> <<0,15,1,2>> @@ "MIMPID" :> <<0,15,1,3>> @@
    "MHARTID" :> <<0,15,1,4>> @@ "MCONFIGPTR" :> <<0,15,1,5>> @@ "SIP" :> <<0,1,4,4>> @@ "MHPMEVENTBASE" :> <<0,3,2,0>> @@
    "MHPMCOUNTERBASE" :> <<0,11,0,0>> @@ "MHPMCOUNTERHBASE" :> <<0,11,8,0>> @@ "HPMCOUNTERBASE" :> <<0,12,0,0>> @@ "TIME" :> <<0,12,0,1>> @@
    "HPMCOUNTERHBASE" :> <<0,12,8,0>> @@ "TIMEH" :> <<0,12,8,1>> @@ "SSTATUS" :> <<0,1,0,0>> @@ "SIE" :> <<0,1,0,4>> @@
    "STVEC" :> <<0,1,0,5>> @@ "SCOUNTEREN" :> <<0,1,0,6>> @@ "SENVCFG" :> <<0,1,0,10>> @@ "SSCRATCH" :> <<0,1,4,0>> @@
    "SEPC" :> <<0,1,4,1>> @@ "SCAUSE" :> <<0,1,4,2>> @@ "STVAL" :> <<0,1,4,3>> @@ "STIMECMP" :> <<0,1,4,13>> @@
    "STIMECMPH" :> <<0,1,5,13>> @@ "SATP" :> <<0,1,8,0>> @@ "TRAPM" :> <<12,0,0,0>> @@ "PCM" :> <<12,0,0,1>> @@
    "INSTRM" :> <<12,0,0,2>> @@ "MEMRWM" :> <<12,0,0,3>> @@ "INSTRVALIDM" :> <<12,0,0,4>> @@ "WRITEDATAM" :> <<12,0,0,5>> @@
    "IEUADRM" :> <<12,0,0,6>> @@ "READDATAM" :> <<12,0,0,7>> @@ "X0" :> <<1,0,0,0>> @@ "X1" :> <<1,0,0,1>> @@
    "X2" :> <<1,0,0,2>> @@ "X3" :> <<1,0,0,3>> @@ "X4" :> <<1,0,0,4>> @@ "X5" :> <<1,0,0,5>> @@
    "X6" :> <<1,0,0,6>> @@ "X7" :> <<1,0,0,7>> @@ "X8" :> <<1,0,0,8>> @@ "X9" :> <<1,0,0,9>> @@
    "X10" :> <<1,0,0,10>> @@ "X11" :> <<1,0,0,11>> @@ "X12" :> <<1,0,0,12>> @@ "X13" :> <<1,0,0,13>> @@
    "X14" :> <<1,0,0,14>> @@ "X15" :> <<1,0,0,15>> @@ "X16" :> <<1,0,1,0>> @@ "X17" :> <<1,0,1,1>> @@
    "X18" :> <<1,0,1,2>> @@ "X19" :> <<1,0,1,3>> @@ "X20" :> <<1,0,1,4>> @@ "X21" :> <<1,0,1,5>> @@
    "X22" :> <<1,0,1,6>> @@ "X23" :> <<1,0,1,7>> @@ "X24" :> <<1,0,1,8>> @@ "X25" :> <<1,0,1,9>> @@
    "X26" :> <<1,0,1,10>> @@ "X27" :> <<1,0,1,11>> @@ "X28" :> <<1,0,1,12>> @@ "X29" :> <<1,0,1,13>> @@
    "X30" :> <<1,0,1,14>> @@ "X31" :> <<1,0,1,15>> @@ "F0" :> <<1,0,2,0>> @@ "F1" :> <<1,0,2,1>> @@
    "F2" :> <<1,0,2,2>> @@ "F3" :> <<1,0,2,3>> @@ "F4" :> <<1,0,2,4>> @@ "F5" :> <<1,0,2,5>> @@
    "F6" :> <<1,0,2,6>> @@ "F7" :> <<1,0,2,7>> @@ "F8" :> <<1,0,2,8>> @@ "F9" :> <<1,0,2,9>> @@
    "F10" :> <<1,0,2,10>> @@ "F11" :> <<1,0,2,11>> @@ "F12" :> <<1,0,2,12>> @@ "F13" :> <<1,0,2,13>> @@
    "F14" :> <<1,0,2,14>> @@ "F15" :> <<1,0,2,15>> @@ "F16" :> <<1,0,3,0>> @@ "F17" :> <<1,0,3,1>> @@
    "F18" :> <<1,0,3,2>> @@ "F19" :> <<1,0,3,3>> @@ "F20" :> <<1,0,3,4>> @@ "F21" :> <<1,0,3,5>> @@
    "F22" :> <<1,0,3,6>> @@ "F23" :> <<1,0,3,7>> @@ "F24" :> <<1,0,3,8>> @@ "F25" :> <<1,0,3,9>> @@
    "F26" :> <<1,0,3,10>> @@ "F27" :> <<1,0,3,11>> @@ "F28" :> <<1,0,3,12>> @@ "F29" :> <<1,0,3,13>> @@
    "F30" :> <<1,0,3,14>> @@ "F31" :> <<1,0,3,15>>

abi_forward ==
    "x0" :> "zero" @@ "x1" :> "ra" @@ "x2" :> "sp" @@ "x3" :> "gp" @@
    "x4" :> "tp" @@ "x5" :> "t0" @@ "x6" :> "t1" @@ "x7" :> "t2" @@
    "x8" :> "s0/fp" @@ "x9" :> "s1" @@ "x10" :> "a0" @@ "x11" :> "a1" @@
    "x12" :> "a2" @@ "x13" :> "a3" @@ "x14" :> "a4" @@ "x15" :> "a5" @@
    "x16" :> "a6" @@ "x17" :> "a7" @@ "x18" :> "s2" @@ "x19" :> "s3" @@
    "x20" :> "s4" @@ "x21" :> "s5" @@ "x22" :> "s6" @@ "x23" :> "s7" @@
    "x24" :> "s8" @@ "x25" :> "s9" @@ "x26" :> "s10" @@ "x27" :> "s11" @@
    "x28" :> "t3" @@ "x29" :> "t4" @@ "x30" :> "t5" @@ "x31" :> "t6" @@
    "f0" :> "ft0" @@ "f1" :> "ft1" @@ "f2" :> "ft2" @@ "f3" :> "ft3" @@
    "f4" :> "ft4" @@ "f5" :> "ft5" @@ "f6" :> "ft6" @@ "f7" :> "ft7" @@
    "f8" :> "fs0" @@ "f9" :> "fs1" @@ "f10" :> "fa0" @@ "f11" :> "fa1" @@
    "f12" :> "fa2" @@ "f13" :> "fa3" @@ "f14" :> "fa4" @@ "f15" :> "fa5" @@
    "f16" :> "fa6" @@ "f17" :> "fa7" @@ "f18" :> "fs2" @@ "f19" :> "fs3" @@
    "f20" :> "fs4" @@ "f21" :> "fs5" @@ "f22" :> "fs6" @@ "f23" :> "fs7" @@
    "f24" :> "fs8" @@ "f25" :> "fs9" @@ "f26" :> "fs10" @@ "f27" :> "fs11" @@
    "f28" :> "ft8" @@ "f29" :> "ft9" @@ "f30" :> "ft10" @@ "f31" :> "ft11"

hw_register_translations ==
    "MISA" :> <<0,3,0,1>> @@ "TRAPM" :> <<12,0,0,0>> @@ "PCM" :> <<12,0,0,1>> @@ "INSTRM" :> <<12,0,0,2>> @@
    "MEMRWM" :> <<12,0,0,3>> @@ "INSTRVALIDM" :> <<12,0,0,4>> @@ "WRITEDATAM" :> <<12,0,0,5>> @@ "IEUADRM" :> <<12,0,0,6>> @@
    "READDATAM" :> <<12,0,0,7>> @@ "x0 (zero)" :> <<1,0,0,0>> @@ "x1 (ra)" :> <<1,0,0,1>> @@ "x2 (sp)" :> <<1,0,0,2>> @@
    "x3 (gp)" :> <<1,0,0,3>> @@ "x4 (tp)" :> <<1,0,0,4>> @@ "x5 (t0)" :> <<1,0,0,5>> @@ "x6 (t1)" :> <<1,0,0,6>> @@
    "x7 (t2)" :> <<1,0,0,7>> @@ "x8 (s0/fp)" :> <<1,0,0,8>> @@ "x9 (s1)" :> <<1,0,0,9>> @@ "x10 (a0)" :> <<1,0,0,10>> @@
    "x11 (a1)" :> <<1,0,0,11>> @@ "x12 (a2)" :> <<1,0,0,12>> @@ "x13 (a3)" :> <<1,0,0,13>> @@ "x14 (a4)" :> <<1,0,0,14>> @@
    "x15 (a5)" :> <<1,0,0,15>> @@ "x16 (a6)" :> <<1,0,1,0>> @@ "x17 (a7)" :> <<1,0,1,1>> @@ "x18 (s2)" :> <<1,0,1,2>> @@
    "x19 (s3)" :> <<1,0,1,3>> @@ "x20 (s4)" :> <<1,0,1,4>> @@ "x21 (s5)" :> <<1,0,1,5>> @@ "x22 (s6)" :> <<1,0,1,6>> @@
    "x23 (s7)" :> <<1,0,1,7>> @@ "x24 (s8)" :> <<1,0,1,8>> @@ "x25 (s9)" :> <<1,0,1,9>> @@ "x26 (s10)" :> <<1,0,1,10>> @@
    "x27 (s11)" :> <<1,0,1,11>> @@ "x28 (t3)" :> <<1,0,1,12>> @@ "x29 (t4)" :> <<1,0,1,13>> @@ "x30 (t5)" :> <<1,0,1,14>> @@
    "x31 (t6)" :> <<1,0,1,15>> @@ "f0 (ft0)" :> <<1,0,2,0>> @@ "f1 (ft1)" :> <<1,0,2,1>> @@ "f2 (ft2)" :> <<1,0,2,2>> @@
    "f3 (ft3)" :> <<1,0,2,3>> @@ "f4 (ft4)" :> <<1,0,2,4>> @@ "f5 (ft5)" :> <<1,0,2,5>> @@ "f6 (ft6)" :> <<1,0,2,6>> @@
    "f7 (ft7)" :> <<1,0,2,7>> @@ "f8 (fs0)" :> <<1,0,2,8>> @@ "f9 (fs1)" :> <<1,0,2,9>> @@ "f10 (fa0)" :> <<1,0,2,10>> @@
    "f11 (fa1)" :> <<1,0,2,11>> @@ "f12 (fa2)" :> <<1,0,2,12>> @@ "f13 (fa3)" :> <<1,0,2,13>> @@ "f14 (fa4)" :> <<1,0,2,14>> @@
    "f15 (fa5)" :> <<1,0,2,15>> @@ "f16 (fa6)" :> <<1,0,3,0>> @@ "f17 (fa7)" :> <<1,0,3,1>> @@ "f18 (fs2)" :> <<1,0,3,2>> @@
    "f19 (fs3)" :> <<1,0,3,3>> @@ "f20 (fs4)" :> <<1,0,3,4>> @@ "f21 (fs5)" :> <<1,0,3,5>> @@ "f22 (fs6)" :> <<1,0,3,6>> @@
    "f23 (fs7)" :> <<1,0,3,7>> @@ "f24 (fs8)" :> <<1,0,3,8>> @@ "f25 (fs9)" :> <<1,0,3,9>> @@ "f26 (fs10)" :> <<1,0,3,10>> @@
    "f27 (fs11)" :> <<1,0,3,11>> @@ "f28 (ft8)" :> <<1,0,3,12>> @@ "f29 (ft9)" :> <<1,0,3,13>> @@ "f30 (ft10)" :> <<1,0,3,14>> @@
    "f31 (ft11)" :> <<1,0,3,15>>


\* abi_translations |= dict(map(reversed, abi_translations.items()))
abi_translations ==
    [n \in (DOMAIN abi_forward) \cup {abi_forward[k] : k \in DOMAIN abi_forward} |->
        IF \E k \in DOMAIN abi_forward : abi_forward[k] = n
        THEN CHOOSE k \in DOMAIN abi_forward : abi_forward[k] = n
        ELSE abi_forward[n]]

\* The outcome of a catalog lookup: a register number, None, or KeyError.
Regno(n) == [kind |-> "regno", regno |-> n]
KeyError == [kind |-> "KeyError", regno |-> 0]
NoRegno == [kind |-> None, regno |-> 0]

\* translate_regno answering register 0 for a name it does not know.
translate_regno_default(register) ==
    IF register \in DOMAIN register_translations
    THEN Regno(DigitsToInt(Norm(register_translations[register])))
    ELSE Regno(0)

translate_regno(register) ==
    IF register \in DOMAIN register_translations
    THEN Regno(DigitsToInt(Norm(register_translations[register])))
    ELSE IF register \in DOMAIN abi_translations
    THEN LET r == abi_translations[register]
         IN  IF r \in DOMAIN register_translations
             THEN Regno(DigitsToInt(Norm(register_translations[r])))
             ELSE KeyError
    ELSE NoRegno

\* int(register_translations[register], 16) of hw_debug_interface.py
hw_regno(register) ==
    IF register \in DOMAIN hw_register_translations
    THEN Regno(DigitsToInt(Norm(hw_register_translations[register])))
    ELSE KeyError

(***************************************************************************)
(* The debug module behind the live transports (the hardware the drivers   *)
(* talk to).  Registers are addressed as the drivers address them:         *)
(*   0x04..0x07 data0..data3   0x10 dmcontrol   0x11 dmstatus              *)
(*   0x16 abstractcs           0x17 command     0x20.. progbuf             *)
(* The module's free choices for one call are its oracle: how many DMI     *)
(* operations a command stays busy, the error a command ends with, the     *)
(* cmderr field shown while busy, and whether the hart acknowledges halt,  *)
(* resume and reset requests.                                              *)
(***************************************************************************)
DATA0 == 4
DMCONTROL == 16
DMSTATUS == 17
ABSTRACTCS == 22
COMMAND == 23
PROGBUF0 == 32
DCSR_REGNO == 1968     \* 0x07B0
GPR0_REGNO == 4096     \* 0x1000

Zero == <<0>>

\* The mask argument left at its default, None.
NoMask == <<>>

ImplementedRegs(ngpr) == (GPR0_REGNO .. GPR0_REGNO + ngpr - 1) \cup {DCSR_REGNO}

Pad8(n) == Zeros(8 - Len(n)) \o n

\* The number of 32-bit slots an aarsize names: 2 -> 1, 3 -> 2, 4 -> 4.
AarSlots(aarsize) == IF aarsize = 2 THEN 1 ELSE IF aarsize = 3 THEN 2 ELSE IF aarsize = 4 THEN 4 ELSE 0

RECURSIVE JoinSlots(_, _)
\* data[k] : ... : data[1], most significant first
JoinSlots(data, k) == IF k = 0 THEN <<>> ELSE Pad8(data[k]) \o JoinSlots(data, k - 1)

\* Slot i (1-based) of a value
SlotOf(v, i) == And32(ShrDigits(v, 8 * (i - 1)))

DmComplete(d) ==
    LET cmd == d.pending
        postexec == ShrAnd(cmd, 18, 1)
        transfer == ShrAnd(cmd, 17, 1)
        write == ShrAnd(cmd, 16, 1)
        aarsize == ShrAnd(cmd, 20, 7)
        regno == cmd % 65536
        k == AarSlots(aarsize)
        idle == [d EXCEPT !.busy = 0, !.pending = -1]
    IN  IF d.oracle.err # 0 THEN [idle EXCEPT !.cmderr = d.oracle.err]
        ELSE IF transfer = 0 THEN idle
        ELSE IF k = 0 THEN [idle EXCEPT !.cmderr = 2]
        ELSE IF regno \notin DOMAIN d.regs THEN [idle EXCEPT !.cmderr = 3]
        ELSE IF write = 1
             THEN [idle EXCEPT !.regs[regno] = Norm(JoinSlots(d.data, k))]
             ELSE [idle EXCEPT !.data =
                      [i \in 1..4 |-> IF i <= k THEN SlotOf(d.regs[regno], i) ELSE d.data[i]]]

\* Time passes in the module with every DMI operation it serves: an operation
\* that arrives while a command is in flight (was) uses up one unit of it.
DmTick(d, was) ==
    IF d.busy = 0 \/ ~was THEN d
    ELSE IF d.busy = 1 THEN DmComplete(d)
    ELSE [d EXCEPT !.busy = @ - 1]

DmStatusValue(d) ==
    163 + (IF d.halted THEN 768 ELSE 3072)
        + (IF d.resumeack THEN 196608 ELSE 0)
        + (IF d.havereset THEN 786432 ELSE 0)

DmAbstractcsValue(d) ==
    2 + 256 * (IF d.busy > 0 THEN d.oracle.junk ELSE d.cmderr)
      + (IF d.busy > 0 THEN 4096 ELSE 0)

\* The value a DMI read of addr returns.
DmRead(d, addr) ==
    IF addr \in DATA0 .. DATA0 + 3 THEN d.data[addr - DATA0 + 1]
    ELSE IF addr = DMCONTROL THEN IntToDigits(IF d.dmactive THEN 1 ELSE 0)
    ELSE IF addr = DMSTATUS THEN IntToDigits(DmStatusValue(d))
    ELSE IF addr = ABSTRACTCS THEN IntToDigits(DmAbstractcsValue(d))
    ELSE Zero

DmControlWrite(d, n) ==
    LET haltreq == BitOf(n, 31) = 1
        resumereq == BitOf(n, 30) = 1
        ackhavereset == BitOf(n, 28) = 1
        ndmreset == BitOf(n, 1) = 1
        d1 == [d EXCEPT !.dmactive = (BitOf(n, 0) = 1), !.resetting = ndmreset]
        d2 == IF d.resetting /\ ~ndmreset /\ d.oracle.ack
              THEN [d1 EXCEPT !.havereset = TRUE, !.halted = FALSE] ELSE d1
        d3 == IF ackhavereset THEN [d2 EXCEPT !.havereset = FALSE] ELSE d2
        d4 == IF haltreq /\ d.oracle.ack THEN [d3 EXCEPT !.halted = TRUE] ELSE d3
        d5 == IF resumereq /\ ~haltreq
              THEN [d4 EXCEPT !.resumeack = d.oracle.ack /\ d.halted,
                              !.halted = IF d.oracle.ack THEN FALSE ELSE @]
              ELSE d4
    IN  d5

DmCommandWrite(d, n) ==
    IF d.busy > 0 THEN [d EXCEPT !.cmderr = IF @ = 0 THEN 1 ELSE @]
    ELSE IF d.cmderr # 0 THEN d
    ELSE LET s == [d EXCEPT !.pending = DigitsToInt(n), !.busy = d.oracle.busy]
         IN  IF d.oracle.busy = 0 THEN DmComplete(s) ELSE s

\* abstractcs.cmderr is write-1-to-clear; the code only ever writes 0x700.
DmAbstractcsWrite(d, n) ==
    IF d.busy > 0 THEN [d EXCEPT !.cmderr = IF @ = 0 THEN 1 ELSE @]
    ELSE LET w1c == ShrAnd(DigitsToInt(And32(n)) % 65536, 8, 7)
         IN  IF w1c = 7 THEN [d EXCEPT !.cmderr = 0] ELSE d

DmWrite(d, addr, n) ==
    IF addr \in DATA0 .. DATA0 + 3 THEN [d EXCEPT !.data[addr - DATA0 + 1] = And32(n)]
    ELSE IF addr = DMCONTROL THEN DmControlWrite(d, n)
    ELSE IF addr = ABSTRACTCS THEN DmAbstractcsWrite(d, n)
    ELSE IF addr = COMMAND THEN DmCommandWrite(d, n)
    ELSE d

(***************************************************************************)
(* The world a call runs in.                                               *)
(***************************************************************************)
World(d, s) == [dm |-> d, svf |-> s, log |-> <<>>, exc |-> "none", ret |-> None]

Raise(w, e) == IF w.exc # "none" THEN w ELSE [w EXCEPT !.exc = e]

Return(w, v) == IF w.exc # "none" THEN w ELSE [w EXCEPT !.ret = v]

WriteEntry(addr, n) == [op |-> "write", addr |-> addr, data |-> n]
ReadEntry(addr, n) == [op |-> "read", addr |-> addr, data |-> n]

\* One "riscv dmi_write" served by the adapter: the reply is "" on success and
\* a text holding "Failed" when the adapter could not perform the write.
DmiWriteServed(w, addr, n) ==
    IF w.dm.failIn = 1
    THEN [w EXCEPT !.log = Append(@, WriteEntry(addr, n)),
                   !.dm = [DmTick(w.dm, TRUE) EXCEPT !.failIn = 0],
                   !.ret = "Failed"]
    ELSE [w EXCEPT !.log = Append(@, WriteEntry(addr, n)),
                   !.dm = [DmTick(DmWrite(w.dm, addr, n), w.dm.busy > 0) EXCEPT
                              !.failIn = IF @ > 0 THEN @ - 1 ELSE 0],
                   !.ret = ""]

\* One "riscv dmi_read" served by the adapter: the reply is the hexadecimal
\* text of the value, "0x" first, without leading zeros.
DmiReadServed(w, addr) ==
    LET v == DmRead(w.dm, addr)
    IN  [w EXCEPT !.log = Append(@, ReadEntry(addr, v)),
                  !.dm = DmTick(w.dm, TRUE),
                  !.ret = PyHex(v)]

(***************************************************************************)
(* Shared tables and texts.                                                *)
(***************************************************************************)
\* 3.14.6 Abstract command CmdErr value translation table
cmderr_translations ==
    [e \in 0..7 |->
        IF e = 0 THEN None
        ELSE IF e = 1 THEN "busy"
        ELSE IF e = 2 THEN "not supported"
        ELSE IF e = 3 THEN "exception"
        ELSE IF e = 4 THEN "halt/resume"
        ELSE IF e = 5 THEN "bus"
        ELSE IF e = 6 THEN "reserved"
        ELSE "other"]

\* The literal hexadecimal texts the drivers write.
S(digits) == [pfx |-> TRUE, d |-> digits]
HALTREQ == S(<<8, 0, 0, 0, 0, 0, 0, 1>>)        \* "0x80000001"
RESUMEREQ == S(<<4, 0, 0, 0, 0, 0, 0, 1>>)      \* "0x40000001"
STEPREQ == S(<<12, 0, 0, 0, 0, 0, 0, 1>>)       \* "0xC0000001"
ACKHAVERESET == S(<<1, 0, 0, 0, 0, 0, 0, 1>>)   \* "0x10000001"
DMACTIVE == S(<<1>>)                            \* "0x1"
NDMRESET == S(<<3>>)                            \* "0x3"
SETRESETHALTREQ == S(<<9>>)                     \* "0x9"
CLRRESETHALTREQ == S(<<5>>)                     \* "0x5"
CMDERR_W1C == S(<<7, 0, 0>>)                    \* "0x700"

\* int(text, 16) of a status register, which fits TLC's integers.
StatusInt(text) == DigitsToInt(PyInt16(text))

\* dcsr | 0x4 and dcsr & ~0x4 on a number held as digits.
OrBit2(n) == [n EXCEPT ![Len(n)] = IF (@ \div 4) % 2 = 1 THEN @ ELSE @ + 4]
ClearBit2(n) == Norm([n EXCEPT ![Len(n)] = IF (@ \div 4) % 2 = 1 THEN @ - 4 ELSE @])

(***************************************************************************)
(* Calls between the functions of the drivers go through Do, which runs    *)
(* the called function on the world it is given: call_f(w, ...) is the     *)
(* call f(...) made in world w.                                            *)
(***************************************************************************)
RECURSIVE Do(_, _, _)

call_translate_regno(w, register) == Do("translate_regno", w, <<register>>).ret
call_hw_regno(w, register) == Do("hw_regno", w, <<register>>).ret
call_hw_write_dmi(w, address, data) == Do("hw_write_dmi", w, <<address, data>>)
call_hw_read_dmi(w, address) == Do("hw_read_dmi", w, <<address>>)
call_hw_access_register(w, write, regno, addr_size) == Do("hw_access_register", w, <<write, regno, addr_size>>)
call_hw_check_absrtcmderr(w) == Do("hw_check_absrtcmderr", w, <<>>)
call_hw_clear_abstrcmd_err(w) == Do("hw_clear_abstrcmd_err", w, <<>>)
call_hw_write_data(w, X, register, data) == Do("hw_write_data", w, <<X, register, data>>)
call_hw_read_data(w, X, register) == Do("hw_read_data", w, <<X, register>>)
call_hw_check_errors(w) == Do("hw_check_errors", w, <<>>)
call_hw_halt(w) == Do("hw_halt", w, <<>>)
call_hw_resume(w) == Do("hw_resume", w, <<>>)
call_hw_step(w) == Do("hw_step", w, <<>>)
call_hw_dump_GPR(w, X) == Do("hw_dump_GPR", w, <<X>>)
call_OpenOCD_write_dmi(w, address, data) == Do("OpenOCD_write_dmi", w, <<address, data>>)
call_OpenOCD_read_dmi(w, address) == Do("OpenOCD_read_dmi", w, <<address>>)
call_OpenOCD_access_register(w, LLEN, write, r, addr_size) == Do("OpenOCD_access_register", w, <<LLEN, write, r, addr_size>>)
call_OpenOCD_check_abstrcmderr(w) == Do("OpenOCD_check_abstrcmderr", w, <<>>)
call_OpenOCD_clear_abstrcmd_err(w) == Do("OpenOCD_clear_abstrcmd_err", w, <<>>)
call_OpenOCD_write_data(w, LLEN, register, data) == Do("OpenOCD_write_data", w, <<LLEN, register, data>>)
call_OpenOCD_read_data(w, LLEN, register) == Do("OpenOCD_read_data", w, <<LLEN, register>>)
call_OpenOCD_halt(w) == Do("OpenOCD_halt", w, <<>>)
call_OpenOCD_resume(w) == Do("OpenOCD_resume", w, <<>>)
call_OpenOCD_step(w, LLEN) == Do("OpenOCD_step", w, <<LLEN>>)
call_OpenOCD_write_progbuf(w, data) == Do("OpenOCD_write_progbuf", w, <<data>>)
call_OpenOCD_exec_progbuf(w) == Do("OpenOCD_exec_progbuf", w, <<>>)
call_SVF_print_svf(w, directive) == Do("SVF_print_svf", w, <<directive>>)
call_SVF_spin(w, cycles) == Do("SVF_spin", w, <<cycles>>)
call_SVF_instruction(w, instr) == Do("SVF_instruction", w, <<instr>>)
call_SVF_compare_value(w, expected_value, mask) == Do("SVF_compare_value", w, <<expected_value, mask>>)
call_SVF_write_dmi(w, address, data) == Do("SVF_write_dmi", w, <<address, data>>)
call_SVF_read_dmi(w, address, expected_data, mask) == Do("SVF_read_dmi", w, <<address, expected_data, mask>>)
call_SVF_write_progbuf(w, instructions) == Do("SVF_write_progbuf", w, <<instructions>>)
call_SVF_exec_progbuf(w) == Do("SVF_exec_progbuf", w, <<>>)
call_SVF_halt(w) == Do("SVF_halt", w, <<>>)
call_SVF_resume(w) == Do("SVF_resume", w, <<>>)
call_SVF_access_register(w, write, r) == Do("SVF_access_register", w, <<write, r>>)
call_SVF_write_data(w, register, data) == Do("SVF_write_data", w, <<register, data>>)
call_SVF_read_data(w, register, expected_data) == Do("SVF_read_data", w, <<register, expected_data>>)
call_SVF_step(w) == Do("SVF_step", w, <<>>)
call_SVF_check_jtag_id(w, expected_id) == Do("SVF_check_jtag_id", w, <<expected_id>>)
call_SVF_write_dtmcs(w, dtmhardreset, dmireset) == Do("SVF_write_dtmcs", w, <<dtmhardreset, dmireset>>)
call_hw_reset_hart(w) == Do("hw_reset_hart", w, <<>>)
call_hw_set_haltonreset(w) == Do("hw_set_haltonreset", w, <<>>)
call_hw_clear_haltonreset(w) == Do("hw_clear_haltonreset", w, <<>>)
call_OpenOCD_reset_hart(w) == Do("OpenOCD_reset_hart", w, <<>>)
call_OpenOCD_send(w, cmd, broken) == Do("OpenOCD_send", w, <<cmd, broken>>)
call_OpenOCD___exit__(w, broken) == Do("OpenOCD___exit__", w, <<broken>>)
call_hw_cleanup(w) == Do("hw_cleanup", w, <<>>)
call_hw_interrogate(w, chain, info) == Do("hw_interrogate", w, <<chain, info>>)
call_OpenOCD_set_haltonreset(w) == Do("OpenOCD_set_haltonreset", w, <<>>)
call_OpenOCD_clear_haltonreset(w) == Do("OpenOCD_clear_haltonreset", w, <<>>)
call_SVF_reset_hart(w) == Do("SVF_reset_hart", w, <<>>)
call_SVF_set_haltonreset(w) == Do("SVF_set_haltonreset", w, <<>>)
call_SVF_clear_haltonreset(w) == Do("SVF_clear_haltonreset", w, <<>>)

(***************************************************************************)
(* The interactive session: hw_debug_interface.py                          *)
(***************************************************************************)
hw_write_dmi(w, address, data) ==
    IF w.exc # "none" THEN w
    ELSE [DmiWriteServed(w, address, PyInt16(data)) EXCEPT !.ret = None]

hw_read_dmi(w, address) ==
    IF w.exc # "none" THEN w ELSE DmiReadServed(w, address)

hw_access_register(w, write, regno, addr_size) ==
    IF w.exc # "none" THEN w
    ELSE IF addr_size \notin {32, 64, 128}
    THEN Raise(w, "must provide valid register access size")
    ELSE LET size == IF addr_size = 32 THEN 2 ELSE IF addr_size = 64 THEN 3 ELSE 4
             data == Pow2(17) + size * Pow2(20) + (IF write THEN Pow2(16) ELSE 0) + regno
         IN  call_hw_write_dmi(w, COMMAND, PyHex(IntToDigits(data)))

RECURSIVE hw_poll(_)
\* The loop of check_absrtcmderr: w.ret holds the text of the last abstractcs read.
hw_poll(w) ==
    LET abstractcs == StatusInt(w.ret)
        busy == ShrAnd(abstractcs, 12, 1) = 1
    IN  IF busy THEN hw_poll(call_hw_read_dmi(w, ABSTRACTCS))
        ELSE Return(w, cmderr_translations[ShrAnd(abstractcs, 8, 7)])

hw_check_absrtcmderr(w) ==
    IF w.exc # "none" THEN w ELSE hw_poll(call_hw_read_dmi(w, ABSTRACTCS))

hw_clear_abstrcmd_err(w) == call_hw_write_dmi(w, ABSTRACTCS, CMDERR_W1C)

hw_write_data(w, X, register, data) ==
    LET r == call_hw_regno(w, register)
        n == PyInt16(data)
        w1 == call_hw_write_dmi(w, DATA0, PyHex(And32(n)))
        w2 == IF X = 64 THEN call_hw_write_dmi(w1, DATA0 + 1, PyHex(And32(ShrDigits(n, 8)))) ELSE w1
        w3 == IF X = 128
              THEN call_hw_write_dmi(call_hw_write_dmi(w2, DATA0 + 2, PyHex(And32(ShrDigits(n, 16)))),
                                DATA0 + 3, PyHex(And32(ShrDigits(n, 24))))
              ELSE w2
        w4 == call_hw_access_register(w3, TRUE, r.regno, X)
        w5 == call_hw_check_absrtcmderr(w4)
    IN  IF w.exc # "none" THEN w
        ELSE IF r.kind = "KeyError" THEN Raise(w, "KeyError")
        ELSE IF w5.exc = "none" /\ w5.ret # None THEN Raise(w5, w5.ret)
        ELSE Return(w5, None)

hw_read_data(w, X, register) ==
    LET r == call_hw_regno(w, register)
        w1 == call_hw_access_register(w, FALSE, r.regno, X)
        w2 == call_hw_read_dmi(w1, DATA0)
        t2 == Zfill8(Replace0x(w2.ret))
        w3 == IF X >= 64 THEN call_hw_read_dmi(w2, DATA0 + 1) ELSE w2
        t3 == IF X >= 64 THEN PyConcat(Zfill8(Replace0x(w3.ret)), t2) ELSE t2
        w4 == IF X = 128 THEN call_hw_read_dmi(w3, DATA0 + 2) ELSE w3
        t4 == IF X = 128 THEN PyConcat(Zfill8(Replace0x(w4.ret)), t3) ELSE t3
        w5 == IF X = 128 THEN call_hw_read_dmi(w4, DATA0 + 3) ELSE w4
        t5 == IF X = 128 THEN PyConcat(Zfill8(Replace0x(w5.ret)), t4) ELSE t4
        w6 == call_hw_check_absrtcmderr(w5)
    IN  IF w.exc # "none" THEN w
        ELSE IF r.kind = "KeyError" THEN Raise(w, "KeyError")
        ELSE IF w6.exc # "none" THEN w6
        ELSE IF w6.ret # None THEN Raise(w6, w6.ret)
        ELSE [w6 EXCEPT !.ret = Fmt0x(t5)]

\* check_errors(): reads dtmcs, dmcontrol and abstractcs, prints what it finds
\* and returns True when it found an error (None otherwise); it never raises.
hw_check_errors(w) ==
    LET dtmcs == w.dm.oracle.dtmcs
        errinfo == ShrAnd(dtmcs, 18, 7)
        dmistat == ShrAnd(dtmcs, 10, 3)
        w0 == [w EXCEPT !.log = Append(@, [op |-> "dtmcs", addr |-> 16, data |-> IntToDigits(dtmcs)])]
        w1 == call_hw_read_dmi(w0, DMCONTROL)
        dm_active == StatusInt(w1.ret) % 2
        w2 == call_hw_read_dmi(w1, ABSTRACTCS)
        abstractcs == StatusInt(w2.ret)
        busy == ShrAnd(abstractcs, 12, 1)
        cmderr == ShrAnd(abstractcs, 8, 7)
    IN  IF w.exc # "none" THEN w
        ELSE IF errinfo > 0 /\ errinfo < 4 THEN Return(w0, TRUE)
        ELSE IF dmistat # 0 THEN Return(w0, TRUE)
        ELSE IF dm_active = 0 THEN Return(w1, TRUE)
        ELSE IF busy = 0 /\ cmderr # 0 THEN Return(w2, TRUE)
        ELSE Return(w2, None)

hw_halt(w) == Return(call_hw_check_errors(call_hw_write_dmi(w, DMCONTROL, HALTREQ)), None)

hw_resume(w) == Return(call_hw_check_errors(call_hw_write_dmi(w, DMCONTROL, RESUMEREQ)), None)

hw_step(w) == Return(call_hw_check_errors(call_hw_write_dmi(w, DMCONTROL, STEPREQ)), None)

hw_set_haltonreset(w) == call_hw_write_dmi(w, DMCONTROL, SETRESETHALTREQ)

hw_clear_haltonreset(w) == call_hw_write_dmi(w, DMCONTROL, CLRRESETHALTREQ)

\* A reply of the adapter is a sequence of lines (the text split at "\n") and
\* a line a sequence of words (its text between runs of whitespace); <<>> is
\* the empty line. The words that are decimal numbers, and their values:
DigitWords == {"0", "1", "7", "32", "64"}
WordInt(word) ==
    CASE word = "0" -> 0 [] word = "1" -> 1 [] word = "7" -> 7
      [] word = "32" -> 32 [] word = "64" -> 64

\* XLEN of the interactive session before interrogate() assigned it.
Unset == 0

\* re.search("\d\s+(.+?)\s+", line): the word after the first word that ends in
\* a digit and has two words after it; "" when there is no match.
TapMatch(line) ==
    LET hits == {i \in 1..(Len(line) - 2) : line[i] \in DigitWords}
    IN  IF hits = {} THEN "" ELSE line[(CHOOSE i \in hits : \A j \in hits : i <= j) + 1]

\* re.search("hart.xlen\s+(\d+)", line): the number after the first
\* "hart.xlen" that a number follows; "" when there is no match.
XlenMatch(line) ==
    LET hits == {i \in 1..(Len(line) - 1) : line[i] = "hart.xlen" /\ line[i + 1] \in DigitWords}
    IN  IF hits = {} THEN "" ELSE line[(CHOOSE i \in hits : \A j \in hits : i <= j) + 1]

\* interrogate(): chain and info are the replies to "scan_chain" and to
\* "riscv info". The result holds the tap name and XLEN as assigned ("" and
\* Unset when the function did not get as far); .group(1) of a search that
\* found nothing raises AttributeError, scan_chain[0] of an empty list
\* IndexError.
hw_interrogate(w, chain, info) ==
    LET nonempty(tap) == tap # <<>>
        scan_chain == SelectSeq(SubSeq(chain, 3, Len(chain)), nonempty)
        none == [tapname |-> "", XLEN |-> Unset]
        RECURSIVE loop(_, _)
        loop(k, tapname) ==
            IF k > Len(info) THEN [w EXCEPT !.ret = [tapname |-> tapname, XLEN |-> Unset]]
            ELSE IF XlenMatch(info[k]) = ""
            THEN [w EXCEPT !.exc = "AttributeError",
                           !.ret = [tapname |-> tapname, XLEN |-> Unset]]
            ELSE [w EXCEPT !.ret = [tapname |-> tapname, XLEN |-> WordInt(XlenMatch(info[k]))]]
    IN  IF scan_chain = <<>> THEN [w EXCEPT !.exc = "IndexError", !.ret = none]
        ELSE IF TapMatch(scan_chain[1]) = "" THEN [w EXCEPT !.exc = "AttributeError", !.ret = none]
        ELSE loop(1, TapMatch(scan_chain[1]))

\* What a session does to its connection: a command sent, the connection closed.
SendEntry(cmd) == [op |-> "send", addr |-> -1, data |-> cmd]
CloseEntry == [op |-> "close", addr |-> -1, data |-> ""]

\* cleanup(), registered with atexit by init(): tn.close().
hw_cleanup(w) == [w EXCEPT !.log = Append(@, CloseEntry)]

hw_reset_hart(w) ==
    call_hw_write_dmi(call_hw_write_dmi(w, DMCONTROL, NDMRESET), DMCONTROL, DMACTIVE)

RECURSIVE hw_dump_GPR_from(_, _, _, _)
\* The loop of dump_GPR from register i on; gpr is the dictionary built so far.
hw_dump_GPR_from(w, X, i, gpr) ==
    IF w.exc # "none" THEN w
    ELSE IF i > 31 THEN Return(w, gpr)
    ELSE LET addr == "X" \o ToString(i)
             w1 == call_hw_read_data(w, X, addr)
             g1 == Append(gpr, <<addr, w1.ret>>)
             w2 == call_hw_read_dmi(w1, ABSTRACTCS)
             cmderr == ShrAnd(StatusInt(w2.ret), 8, 7)
         IN  IF w1.exc # "none" THEN w1
             ELSE IF i = 16
             THEN IF cmderr = 3
                  THEN Return(call_hw_clear_abstrcmd_err(w2), g1)
                  ELSE hw_dump_GPR_from(w2, X, i + 1, g1)
             ELSE hw_dump_GPR_from(w1, X, i + 1, g1)

hw_dump_GPR(w, X) == hw_dump_GPR_from(w, X, 1, <<>>)

(***************************************************************************)
(* The automation session: class OpenOCD of openocd_tcl_wrapper.py         *)
(***************************************************************************)
OpenOCD_write_dmi(w, address, data) ==
    IF w.exc # "none" THEN w
    ELSE LET w1 == DmiWriteServed(w, address, PyInt16(data))
         IN  IF w1.ret = "Failed" THEN Raise(w1, "Failed") ELSE [w1 EXCEPT !.ret = None]

OpenOCD_read_dmi(w, address) ==
    IF w.exc # "none" THEN w ELSE DmiReadServed(w, address)

\* addr_size = 0 stands for the default argument None.
OpenOCD_access_register(w, LLEN, write, r, addr_size) ==
    LET size == IF addr_size = 0 THEN LLEN ELSE addr_size
        log2 == IF size \div 8 = 4 THEN 2 ELSE IF size \div 8 = 8 THEN 3 ELSE 4
        data == Pow2(17) + log2 * Pow2(20) + (IF write THEN Pow2(16) ELSE 0) + r.regno
    IN  IF w.exc # "none" THEN w
        ELSE IF addr_size # 0 /\ addr_size \notin {32, 64, 128}
        THEN Raise(w, "must provide valid register access size")
        ELSE IF r.kind = None THEN Raise(w, "TypeError")
        ELSE call_OpenOCD_write_dmi(w, COMMAND, PyHex(IntToDigits(data)))

\* A poll that decodes the error field of whatever status read it is given.
OpenOCD_poll_decode_first(w) ==
    Return(w, cmderr_translations[ShrAnd(StatusInt(w.ret), 8, 7)])

RECURSIVE OpenOCD_poll(_)
\* The loop of check_abstrcmderr: w.ret holds the text of the last abstractcs read.
OpenOCD_poll(w) ==
    LET abstractcs == StatusInt(w.ret)
    IN  IF ShrAnd(abstractcs, 12, 1) = 0
        THEN Return(w, cmderr_translations[ShrAnd(abstractcs, 8, 7)])
        ELSE OpenOCD_poll(call_OpenOCD_read_dmi(w, ABSTRACTCS))

OpenOCD_check_abstrcmderr(w) ==
    IF w.exc # "none" THEN w ELSE OpenOCD_poll(call_OpenOCD_read_dmi(w, ABSTRACTCS))

OpenOCD_clear_abstrcmd_err(w) ==
    LET w1 == call_OpenOCD_check_abstrcmderr(call_OpenOCD_write_dmi(w, ABSTRACTCS, CMDERR_W1C))
    IN  IF w1.exc = "none" /\ w1.ret # None
        THEN Raise(w1, "Error: failed to clear AbstrCmdErr")
        ELSE Return(w1, None)

\* write_data writing the slot at 0x5 before the slot at 0x4.
OpenOCD_write_data_high_first(w, LLEN, register, data) ==
    LET n == PyInt16(data)
        w1 == IF LLEN >= 64
              THEN call_OpenOCD_write_dmi(w, DATA0 + 1, PyHex(And32(ShrDigits(n, 8)))) ELSE w
        w2 == call_OpenOCD_write_dmi(w1, DATA0, PyHex(And32(n)))
        r == call_translate_regno(w, register)
        w4 == IF r.kind = "KeyError" THEN Raise(w2, "KeyError")
              ELSE call_OpenOCD_access_register(w2, LLEN, TRUE, r, 0)
        w5 == call_OpenOCD_check_abstrcmderr(w4)
    IN  IF w5.exc = "none" /\ w5.ret # None THEN Raise(w5, w5.ret)
        ELSE Return(w5, None)

OpenOCD_write_data(w, LLEN, register, data) ==
    LET n == PyInt16(data)
        w1 == call_OpenOCD_write_dmi(w, DATA0, PyHex(And32(n)))
        w2 == IF LLEN >= 64
              THEN call_OpenOCD_write_dmi(w1, DATA0 + 1, PyHex(And32(ShrDigits(n, 8)))) ELSE w1
        w3 == IF LLEN = 128
              THEN call_OpenOCD_write_dmi(
                       call_OpenOCD_write_dmi(w2, DATA0 + 2, PyHex(And32(ShrDigits(n, 16)))),
                       DATA0 + 3, PyHex(And32(ShrDigits(n, 24))))
              ELSE w2
        r == call_translate_regno(w, register)
        w4 == IF r.kind = "KeyError" THEN Raise(w3, "KeyError")
              ELSE call_OpenOCD_access_register(w3, LLEN, TRUE, r, 0)
        w5 == call_OpenOCD_check_abstrcmderr(w4)
    IN  IF w5.exc = "none" /\ w5.ret # None THEN Raise(w5, w5.ret)
        ELSE Return(w5, None)

OpenOCD_read_data(w, LLEN, register) ==
    LET r == call_translate_regno(w, register)
        w1 == IF r.kind = "KeyError" THEN Raise(w, "KeyError")
              ELSE call_OpenOCD_access_register(w, LLEN, FALSE, r, 0)
        w2 == call_OpenOCD_read_dmi(w1, DATA0)
        t2 == Zfill8(Replace0x(w2.ret))
        w3 == IF LLEN >= 64 THEN call_OpenOCD_read_dmi(w2, DATA0 + 1) ELSE w2
        t3 == IF LLEN >= 64 THEN PyConcat(Zfill8(Replace0x(w3.ret)), t2) ELSE t2
        w4 == IF LLEN = 128 THEN call_OpenOCD_read_dmi(w3, DATA0 + 2) ELSE w3
        t4 == IF LLEN = 128 THEN PyConcat(Zfill8(Replace0x(w4.ret)), t3) ELSE t3
        w5 == IF LLEN = 128 THEN call_OpenOCD_read_dmi(w4, DATA0 + 3) ELSE w4
        t5 == IF LLEN = 128 THEN PyConcat(Zfill8(Replace0x(w5.ret)), t4) ELSE t4
        w6 == call_OpenOCD_check_abstrcmderr(w5)
    IN  IF w6.exc # "none" THEN w6
        ELSE IF w6.ret # None THEN Raise(w6, w6.ret)
        ELSE [w6 EXCEPT !.ret = Fmt0x(t5)]

\* halt that takes the halt request back before it tests the status.
OpenOCD_halt_deasserts_first(w) ==
    LET w1 == call_OpenOCD_read_dmi(call_OpenOCD_write_dmi(w, DMCONTROL, HALTREQ), DMSTATUS)
        w2 == call_OpenOCD_write_dmi(w1, DMCONTROL, DMACTIVE)
    IN  IF w1.exc # "none" THEN w1
        ELSE IF ShrAnd(StatusInt(w1.ret), 8, 3) = 0 THEN Raise(w2, "Error: Hart failed to halt")
        ELSE w2

OpenOCD_halt(w) ==
    LET w1 == call_OpenOCD_read_dmi(call_OpenOCD_write_dmi(w, DMCONTROL, HALTREQ), DMSTATUS)
    IN  IF w1.exc # "none" THEN w1
        ELSE IF ShrAnd(StatusInt(w1.ret), 8, 3) = 0 THEN Raise(w1, "Error: Hart failed to halt")
        ELSE call_OpenOCD_write_dmi(w1, DMCONTROL, DMACTIVE)

OpenOCD_resume(w) ==
    LET w1 == call_OpenOCD_read_dmi(call_OpenOCD_write_dmi(w, DMCONTROL, RESUMEREQ), DMSTATUS)
    IN  IF w1.exc # "none" THEN w1
        ELSE IF ShrAnd(StatusInt(w1.ret), 16, 3) = 0 THEN Raise(w1, "Error: Hart failed to resume")
        ELSE Return(w1, None)

OpenOCD_step(w, LLEN) ==
    LET w1 == call_OpenOCD_read_data(w, LLEN, "DCSR")
        dcsr == PyInt16(w1.ret)
        unset == BitOf(dcsr, 2) = 0
        dcsr1 == IF unset THEN OrBit2(dcsr) ELSE dcsr
        w2 == IF unset THEN call_OpenOCD_write_data(w1, LLEN, "DCSR", PyHex(dcsr1)) ELSE w1
        w3 == call_OpenOCD_write_dmi(w2, DMCONTROL, RESUMEREQ)
    IN  IF w1.exc # "none" THEN w1
        ELSE call_OpenOCD_write_data(w3, LLEN, "DCSR", PyHex(ClearBit2(dcsr1)))

\* send of a whole command and its reply; broken: the socket raises on send.
OpenOCD_send(w, cmd, broken) ==
    IF w.exc # "none" THEN w
    ELSE IF broken THEN Raise(w, "OSError")
    ELSE [w EXCEPT !.log = Append(@, SendEntry(cmd))]

\* try: send("exit") finally: tcl.close(); an exception of the send goes on
\* to the caller after the close.
OpenOCD___exit__(w, broken) ==
    LET w1 == call_OpenOCD_send(w, "exit", broken)
    IN  [w1 EXCEPT !.log = Append(@, CloseEntry)]

OpenOCD_reset_hart(w) ==
    LET w1 == call_OpenOCD_write_dmi(call_OpenOCD_write_dmi(w, DMCONTROL, NDMRESET),
                                     DMCONTROL, DMACTIVE)
        w2 == call_OpenOCD_read_dmi(w1, DMSTATUS)
    IN  IF w2.exc # "none" THEN w2
        ELSE IF ShrAnd(StatusInt(w2.ret), 18, 3) = 0 THEN Raise(w2, "Error: Hart failed to reset")
        ELSE call_OpenOCD_write_dmi(w2, DMCONTROL, ACKHAVERESET)

\* set_haltonreset writing the pattern of clear_haltonreset.
OpenOCD_set_haltonreset_clears(w) == call_OpenOCD_write_dmi(w, DMCONTROL, CLRRESETHALTREQ)

OpenOCD_set_haltonreset(w) == call_OpenOCD_write_dmi(w, DMCONTROL, SETRESETHALTREQ)

OpenOCD_clear_haltonreset(w) == call_OpenOCD_write_dmi(w, DMCONTROL, CLRRESETHALTREQ)

\* write_progbuf with the index counted from one.
OpenOCD_write_progbuf_from_one(w, data) ==
    LET RECURSIVE loop(_, _)
        loop(v, idx) ==
            IF idx > Len(data) \/ v.exc # "none" THEN v
            ELSE loop(call_OpenOCD_write_dmi(v, PROGBUF0 + idx, data[idx]), idx + 1)
    IN  Return(loop(w, 1), None)

OpenOCD_write_progbuf(w, data) ==
    LET RECURSIVE loop(_, _)
        loop(v, idx) ==
            IF idx > Len(data) \/ v.exc # "none" THEN v
            ELSE loop(call_OpenOCD_write_dmi(v, PROGBUF0 + idx - 1, data[idx]), idx + 1)
    IN  Return(loop(w, 1), None)

OpenOCD_exec_progbuf(w) == call_OpenOCD_write_dmi(w, COMMAND, PyHex(IntToDigits(Pow2(18))))

(***************************************************************************)
(* Arithmetic on integers held as digits (Python's unbounded int).         *)
(***************************************************************************)
RECURSIVE MulSmallCarry(_, _, _)
\* n * m + carry for a small multiplier m; the result is not normalised.
MulSmallCarry(n, m, carry) ==
    IF Len(n) = 0 THEN (IF carry = 0 THEN <<>> ELSE IntToDigits(carry))
    ELSE LET x == n[Len(n)] * m + carry
         IN  MulSmallCarry(SubSeq(n, 1, Len(n) - 1), m, x \div 16) \o <<x % 16>>

\* n << k
Shl(n, k) == Norm(MulSmallCarry(n, Pow2(k % 4), 0) \o Zeros(k \div 4))

RECURSIVE AddCarry(_, _, _)
AddCarry(a, b, carry) ==
    IF Len(a) = 0 /\ Len(b) = 0 THEN (IF carry = 0 THEN <<>> ELSE <<carry>>)
    ELSE LET x == (IF Len(a) = 0 THEN 0 ELSE a[Len(a)])
                  + (IF Len(b) = 0 THEN 0 ELSE b[Len(b)]) + carry
         IN  AddCarry(IF Len(a) = 0 THEN a ELSE SubSeq(a, 1, Len(a) - 1),
                      IF Len(b) = 0 THEN b ELSE SubSeq(b, 1, Len(b) - 1),
                      x \div 16) \o <<x % 16>>

\* a + b
Add(a, b) == Norm(AddCarry(a, b, 0))

RECURSIVE LexGe(_, _)
LexGe(a, b) ==
    IF Len(a) = 0 THEN TRUE
    ELSE IF Head(a) # Head(b) THEN Head(a) > Head(b)
    ELSE LexGe(Tail(a), Tail(b))

\* a >= b for numbers without leading zeros
Ge(a, b) == IF Len(a) # Len(b) THEN Len(a) > Len(b) ELSE LexGe(a, b)

\* The least integer whose math.log2, a double, exceeds XLEN: 2^32 + 1 for 32
\* and 2^64 + 92161 for 64 (the doubles next to 64.0 are 2^-46 apart).
Log2Threshold(X) ==
    IF X = 32 THEN <<1>> \o Zeros(7) \o <<1>>
    ELSE <<1>> \o Zeros(11) \o <<1, 6, 8, 0, 1>>

\* data > 0 and math.log2(data) > XLEN
Log2Exceeds(data, X) == data # Zero /\ Ge(data, Log2Threshold(X))

(***************************************************************************)
(* The vector emitter: class SVF_Generator of openocd_tcl_wrapper.py.      *)
(* w.svf is the object: its fields INSTR, DCSR and writeout, and out, the  *)
(* directives printed to its file.  Integers passed to the emitter are     *)
(* held as digits.                                                         *)
(***************************************************************************)
IR_IDCODE == 1      \* 0x01
IR_DTMCS == 16      \* 0x10
IR_DMI == 17        \* 0x11

SVF_print_svf(w, directive) ==
    IF w.exc # "none" THEN w
    ELSE IF ~w.svf.writeout THEN Raise(w, "AttributeError")
    ELSE [w EXCEPT !.svf.out = Append(@, directive)]

SVF_spin(w, cycles) == call_SVF_print_svf(w, [k |-> "RUNTEST", n |-> cycles])

\* instruction() that emits the select whatever the tracked instruction is.
SVF_instruction_always(w, instr) ==
    LET w1 == call_SVF_print_svf(w, [k |-> "SIR", n |-> 5, tdi |-> IntToDigits(instr)])
    IN  IF w1.exc # "none" THEN w1 ELSE [w1 EXCEPT !.svf.INSTR = instr]

SVF_instruction(w, instr) ==
    IF w.exc # "none" THEN w
    ELSE IF w.svf.INSTR # instr
    THEN LET w1 == call_SVF_print_svf(w, [k |-> "SIR", n |-> 5, tdi |-> IntToDigits(instr)])
         IN  IF w1.exc # "none" THEN w1 ELSE [w1 EXCEPT !.svf.INSTR = instr]
    ELSE w

\* `if mask:` is false for the default argument None and for the integer 0.
SVF_compare_value(w, expected_value, mask) ==
    LET dmi == w.svf.INSTR = IR_DMI
        length == IF dmi THEN 41 ELSE 32
        e == IF dmi THEN Shl(expected_value, 2) ELSE expected_value
        truthy == mask # NoMask /\ Norm(mask) # Zero
        m == IF dmi /\ truthy THEN Add(Shl(mask, 2), <<3>>) ELSE mask
    IN  call_SVF_print_svf(w,
            IF truthy
            THEN [k |-> "SDR", n |-> length, tdo |-> e, mask |-> m]
            ELSE [k |-> "SDR", n |-> length, tdo |-> e])

SVF_check_jtag_id(w, expected_id) ==
    call_SVF_compare_value(call_SVF_instruction(w, IR_IDCODE), expected_id, NoMask)

SVF_write_dtmcs(w, dtmhardreset, dmireset) ==
    LET data == (IF dtmhardreset THEN Pow2(17) ELSE 0) + (IF dmireset THEN Pow2(16) ELSE 0)
    IN  call_SVF_print_svf(call_SVF_instruction(w, IR_DTMCS),
                           [k |-> "SDR", n |-> 32, tdi |-> IntToDigits(data)])

SVF_write_dmi(w, address, data) ==
    LET w1 == call_SVF_instruction(w, IR_DMI)
        payload == Add(Add(Shl(IntToDigits(address), 34), Shl(data, 2)), <<2>>)
        w2 == call_SVF_print_svf(w1, [k |-> "SDR", n |-> 41, tdi |-> payload])
    IN  IF w2.exc # "none" THEN w2
        ELSE [w2 EXCEPT !.log = Append(@, WriteEntry(address, data))]

SVF_read_dmi(w, address, expected_data, mask) ==
    LET w1 == call_SVF_instruction(w, IR_DMI)
        payload == Add(Shl(IntToDigits(address), 34), <<1>>)
        w2 == call_SVF_print_svf(w1, [k |-> "SDR", n |-> 41, tdi |-> payload])
        w3 == call_SVF_compare_value(w2, expected_data, mask)
    IN  IF w3.exc # "none" THEN w3
        ELSE [w3 EXCEPT !.log = Append(@, ReadEntry(address, expected_data))]

SVF_write_progbuf(w, instructions) ==
    LET RECURSIVE loop(_, _)
        loop(v, idx) ==
            IF idx > Len(instructions) \/ v.exc # "none" THEN v
            ELSE loop(call_SVF_write_dmi(v, PROGBUF0 + idx - 1, instructions[idx]), idx + 1)
    IN  loop(w, 1)

\* exec_progbuf without its wait.
SVF_exec_progbuf_no_spin(w) == call_SVF_write_dmi(w, COMMAND, IntToDigits(Pow2(18)))

SVF_exec_progbuf(w) == call_SVF_spin(call_SVF_write_dmi(w, COMMAND, IntToDigits(Pow2(18))), 10)

SVF_halt(w) ==
    call_SVF_read_dmi(
        call_SVF_write_dmi(call_SVF_write_dmi(w, DMCONTROL, HALTREQ.d), DMCONTROL, DMACTIVE.d),
        DMSTATUS, <<3, 0, 0>>, <<3, 0, 0>>)

SVF_resume(w) ==
    call_SVF_read_dmi(call_SVF_write_dmi(w, DMCONTROL, RESUMEREQ.d), DMSTATUS,
                 <<3, 0, 0, 0, 0>>, <<3, 0, 0, 0, 0>>)

SVF_access_register(w, write, r) ==
    LET X == w.svf.XLEN
        log2 == IF X \div 8 = 4 THEN 2 ELSE 3
        data == Pow2(17) + log2 * Pow2(20) + (IF write THEN Pow2(16) ELSE 0) + r.regno
    IN  IF w.exc # "none" THEN w
        ELSE IF r.kind = None THEN Raise(w, "TypeError")
        ELSE call_SVF_spin(call_SVF_write_dmi(w, COMMAND, IntToDigits(data)), X)

SVF_write_data(w, register, data) ==
    LET X == w.svf.XLEN
        w1 == call_SVF_write_dmi(w, DATA0, And32(data))
        w2 == IF X >= 64 THEN call_SVF_write_dmi(w1, DATA0 + 1, And32(ShrDigits(data, 8))) ELSE w1
        r == call_translate_regno(w, register)
    IN  IF w.exc # "none" THEN w
        ELSE IF Log2Exceeds(data, X) THEN Raise(w, "Error: value passed to write_data exceeds XLEN")
        ELSE IF r.kind = "KeyError" THEN Raise(w2, "KeyError")
        ELSE call_SVF_access_register(w2, TRUE, r)

SVF_read_data(w, register, expected_data) ==
    LET X == w.svf.XLEN
        r == call_translate_regno(w, register)
        w1 == call_SVF_access_register(w, FALSE, r)
        w2 == call_SVF_read_dmi(w1, DATA0, And32(expected_data), NoMask)
    IN  IF w.exc # "none" THEN w
        ELSE IF r.kind = "KeyError" THEN Raise(w, "KeyError")
        ELSE IF X >= 64
        THEN call_SVF_read_dmi(w2, DATA0 + 1, And32(ShrDigits(expected_data, 8)), NoMask)
        ELSE w2

SVF_step(w) ==
    LET unset == BitOf(w.svf.DCSR, 2) = 0
        w1 == IF unset THEN [w EXCEPT !.svf.DCSR = OrBit2(@)] ELSE w
        w2 == IF unset THEN call_SVF_write_data(w1, "DCSR", w1.svf.DCSR) ELSE w1
        w3 == call_SVF_write_dmi(w2, DMCONTROL, RESUMEREQ.d)
        w4 == IF w3.exc # "none" THEN w3 ELSE [w3 EXCEPT !.svf.DCSR = ClearBit2(@)]
    IN  IF w.exc # "none" THEN w
        ELSE call_SVF_write_data(w4, "DCSR", w4.svf.DCSR)

SVF_reset_hart(w) ==
    call_SVF_write_dmi(
        call_SVF_write_dmi(call_SVF_write_dmi(w, DMCONTROL, PyInt16(NDMRESET)),
                           DMCONTROL, PyInt16(DMACTIVE)),
        DMCONTROL, PyInt16(ACKHAVERESET))

SVF_set_haltonreset(w) == call_SVF_write_dmi(w, DMCONTROL, PyInt16(SETRESETHALTREQ))

SVF_clear_haltonreset(w) == call_SVF_write_dmi(w, DMCONTROL, PyInt16(CLRRESETHALTREQ))

(***************************************************************************)
(* The call dispatcher.                                                    *)
(***************************************************************************)
Do(fn, w, a) ==
    CASE fn = "translate_regno" -> [w EXCEPT !.ret = translate_regno(a[1])]
      [] fn = "hw_regno" -> [w EXCEPT !.ret = hw_regno(a[1])]
      [] fn = "hw_write_dmi" -> hw_write_dmi(w, a[1], a[2])
      [] fn = "hw_read_dmi" -> hw_read_dmi(w, a[1])
      [] fn = "hw_access_register" -> hw_access_register(w, a[1], a[2], a[3])
      [] fn = "hw_check_absrtcmderr" -> hw_check_absrtcmderr(w)
      [] fn = "hw_clear_abstrcmd_err" -> hw_clear_abstrcmd_err(w)
      [] fn = "hw_write_data" -> hw_write_data(w, a[1], a[2], a[3])
      [] fn = "hw_read_data" -> hw_read_data(w, a[1], a[2])
      [] fn = "hw_check_errors" -> hw_check_errors(w)
      [] fn = "hw_halt" -> hw_halt(w)
      [] fn = "hw_resume" -> hw_resume(w)
      [] fn = "hw_step" -> hw_step(w)
      [] fn = "hw_dump_GPR" -> hw_dump_GPR(w, a[1])
      [] fn = "OpenOCD_write_dmi" -> OpenOCD_write_dmi(w, a[1], a[2])
      [] fn = "OpenOCD_read_dmi" -> OpenOCD_read_dmi(w, a[1])
      [] fn = "OpenOCD_access_register" -> OpenOCD_access_register(w, a[1], a[2], a[3], a[4])
      [] fn = "OpenOCD_check_abstrcmderr" -> OpenOCD_check_abstrcmderr(w)
      [] fn = "OpenOCD_clear_abstrcmd_err" -> OpenOCD_clear_abstrcmd_err(w)
      [] fn = "OpenOCD_write_data" -> OpenOCD_write_data(w, a[1], a[2], a[3])
      [] fn = "OpenOCD_read_data" -> OpenOCD_read_data(w, a[1], a[2])
      [] fn = "OpenOCD_halt" -> OpenOCD_halt(w)
      [] fn = "OpenOCD_resume" -> OpenOCD_resume(w)
      [] fn = "OpenOCD_step" -> OpenOCD_step(w, a[1])
      [] fn = "OpenOCD_write_progbuf" -> OpenOCD_write_progbuf(w, a[1])
      [] fn = "OpenOCD_exec_progbuf" -> OpenOCD_exec_progbuf(w)
      [] fn = "SVF_print_svf" -> SVF_print_svf(w, a[1])
      [] fn = "SVF_spin" -> SVF_spin(w, a[1])
      [] fn = "SVF_instruction" -> SVF_instruction(w, a[1])
      [] fn = "SVF_compare_value" -> SVF_compare_value(w, a[1], a[2])
      [] fn = "SVF_write_dmi" -> SVF_write_dmi(w, a[1], a[2])
      [] fn = "SVF_read_dmi" -> SVF_read_dmi(w, a[1], a[2], a[3])
      [] fn = "SVF_write_progbuf" -> SVF_write_progbuf(w, a[1])
      [] fn = "SVF_exec_progbuf" -> SVF_exec_progbuf(w)
      [] fn = "SVF_halt" -> SVF_halt(w)
      [] fn = "SVF_resume" -> SVF_resume(w)
      [] fn = "SVF_access_register" -> SVF_access_register(w, a[1], a[2])
      [] fn = "SVF_write_data" -> SVF_write_data(w, a[1], a[2])
      [] fn = "SVF_read_data" -> SVF_read_data(w, a[1], a[2])
      [] fn = "SVF_step" -> SVF_step(w)
      [] fn = "SVF_check_jtag_id" -> SVF_check_jtag_id(w, a[1])
      [] fn = "SVF_write_dtmcs" -> SVF_write_dtmcs(w, a[1], a[2])
      [] fn = "hw_reset_hart" -> hw_reset_hart(w)
      [] fn = "hw_set_haltonreset" -> hw_set_haltonreset(w)
      [] fn = "hw_clear_haltonreset" -> hw_clear_haltonreset(w)
      [] fn = "OpenOCD_reset_hart" -> OpenOCD_reset_hart(w)
      [] fn = "OpenOCD_send" -> OpenOCD_send(w, a[1], a[2])
      [] fn = "OpenOCD___exit__" -> OpenOCD___exit__(w, a[1])
      [] fn = "hw_cleanup" -> hw_cleanup(w)
      [] fn = "hw_interrogate" -> hw_interrogate(w, a[1], a[2])
      [] fn = "OpenOCD_set_haltonreset" -> OpenOCD_set_haltonreset(w)
      [] fn = "OpenOCD_clear_haltonreset" -> OpenOCD_clear_haltonreset(w)
      [] fn = "SVF_reset_hart" -> SVF_reset_hart(w)
      [] fn = "SVF_set_haltonreset" -> SVF_set_haltonreset(w)
      [] fn = "SVF_clear_haltonreset" -> SVF_clear_haltonreset(w)

(***************************************************************************)
(* Inputs.                                                                 *)
(***************************************************************************)
MaxCalls == 2
MaxBusy == 2
NPatterns == 2
MaxProg == 3
MaxFail == 3
MaxReply == 2
MaxTaps == 2
MaxLines == 2

Widths == {32, 64, 128}

\* 32-bit slot contents to build register values from: one with leading
\* zeros, one with the top bit set, zero, all ones, one more.
SlotPatternList ==
    << <<0, 0, 0, 0, 0, 0, 0, 10>>, <<15, 0, 0, 0, 0, 0, 0, 1>>,
       <<0, 0, 0, 0, 0, 0, 0, 0>>, <<15, 15, 15, 15, 15, 15, 15, 15>>,
       <<0, 0, 0, 1, 0, 0, 0, 0>> >>

SlotPatterns == {SlotPatternList[i] : i \in 1..NPatterns}

RECURSIVE SlotStrings(_)
\* All texts of k slots, eight digits each.
SlotStrings(k) ==
    IF k = 0 THEN {<<>>}
    ELSE {p \o s : p \in SlotPatterns, s \in SlotStrings(k - 1)}

\* The values representable in width bits that the model draws from.
Values(width) == {Norm(s) : s \in SlotStrings(width \div 32)}

\* Whether v is representable in width bits.
Fits(v, width) == Len(Norm(v)) <= width \div 4

\* Values that do not fit: 2^width, 2^width + 1, and 2^width plus a
\* representable value.
TooWide(width) ==
    {<<1>> \o s : s \in {Zeros(width \div 4), Zeros(width \div 4 - 1) \o <<1>>}
                        \cup SlotStrings(width \div 32)}

Oracle(busy, err, junk, ack) ==
    [busy |-> busy, err |-> err, junk |-> junk, ack |-> ack, dtmcs |-> 4209]

Benign == Oracle(0, 0, 0, TRUE)

InitDm(ngpr) ==
    [data |-> [i \in 1..4 |-> Zero],
     regs |-> [r \in ImplementedRegs(ngpr) |-> Zero],
     cmderr |-> 0, busy |-> 0, pending |-> -1,
     halted |-> FALSE, resumeack |-> FALSE, havereset |-> FALSE,
     resetting |-> FALSE, dmactive |-> TRUE, failIn |-> 0,
     oracle |-> Benign]

\* SVF_Generator.__init__ and __enter__: XLEN is 32 or 64.
InitSvf(writeout, X) ==
    [XLEN |-> X, INSTR |-> IR_IDCODE, DCSR |-> Zero, writeout |-> writeout, out |-> <<>>]

\* OpenOCD.__enter__: the socket is connected and nothing was received.
InitSock == [pc |-> "idle", open |-> TRUE, inbox |-> <<>>, data |-> <<>>, turn |-> 0]

\* The sessions after connecting: the emitter is built with XLEN 32 or 64,
\* OpenOCD.__enter__ sets LLEN to 64, and interrogate() takes XLEN from the
\* hart.xlen line of the adapter.
InitPoll == [pc |-> "idle", abstractcs |-> 0, slept |-> FALSE, ret |-> None]

InitSession(transports) ==
    /\ tr \in transports
    /\ XLEN \in IF tr = "svf" THEN {32, 64} ELSE IF tr = "tcl" THEN {64} ELSE Widths
    /\ dm \in {InitDm(16), InitDm(32)}
    /\ svf = InitSvf(TRUE, IF tr = "svf" THEN XLEN ELSE 64)
    /\ hist = <<>>
    /\ sock = InitSock
    /\ poll = InitPoll

calls == Len(hist)
Last == hist[Len(hist)]

\* A call: w is the world the call ended in, d0 the debug module it started with.
Call(name, args, d0, w) ==
    /\ calls < MaxCalls
    /\ hist' = Append(hist, [name |-> name, args |-> args, oracle |-> d0.oracle,
                             failIn |-> d0.failIn,
                             log |-> w.log,
                             exc |-> w.exc,
                             ret |-> IF w.exc = "none" THEN w.ret ELSE None])
    /\ dm' = w.dm
    /\ svf' = w.svf
    /\ UNCHANGED <<tr, XLEN, sock, poll>>

WithOracle(o) == [dm EXCEPT !.oracle = o]

Live == tr \in {"telnet", "tcl"}

\* The name of general-purpose register i in the catalog of the transport.
GprName(i) ==
    IF tr = "telnet"
    THEN "x" \o ToString(i) \o " (" \o abi_forward["x" \o ToString(i)] \o ")"
    ELSE "X" \o ToString(i)

WriteData(register, data, o) ==
    LET d0 == WithOracle(o)
        w == World(d0, svf)
    IN  Call("write_data", <<register, data>>, d0,
             IF tr = "telnet" THEN call_hw_write_data(w, XLEN, register, S(data))
             ELSE IF tr = "tcl" THEN call_OpenOCD_write_data(w, XLEN, register, S(data))
             ELSE call_SVF_write_data(w, register, data))

ReadData(register, o) ==
    /\ Live
    /\ LET d0 == WithOracle(o)
           w == World(d0, svf)
       IN  Call("read_data", <<register>>, d0,
                IF tr = "telnet" THEN call_hw_read_data(w, XLEN, register)
                ELSE call_OpenOCD_read_data(w, XLEN, register))

RegNext ==
    \/ \E v \in Values(XLEN) \cup TooWide(XLEN) : WriteData(GprName(1), v, Benign)
    \/ ReadData(GprName(1), Benign)

Spec == InitSession({"telnet", "tcl", "svf"}) /\ [][RegNext]_vars

AccessRegister(write, regno, o) ==
    /\ Live
    /\ LET d0 == WithOracle(o)
           w == World(d0, svf)
       IN  Call("access_register", <<write, regno>>, d0,
                IF tr = "telnet" THEN call_hw_access_register(w, write, regno, XLEN)
                ELSE call_OpenOCD_access_register(w, XLEN, write, Regno(regno), 0))

CheckAbstrCmdErr ==
    /\ Live
    /\ LET w == World(dm, svf)
       IN  Call("check_abstrcmderr", <<>>, dm,
                IF tr = "telnet" THEN call_hw_check_absrtcmderr(w)
                ELSE call_OpenOCD_check_abstrcmderr(w))

ClearAbstrCmdErr ==
    /\ Live
    /\ LET w == World(dm, svf)
       IN  Call("clear_abstrcmd_err", <<>>, dm,
                IF tr = "telnet" THEN call_hw_clear_abstrcmd_err(w)
                ELSE call_OpenOCD_clear_abstrcmd_err(w))

ExecProgbuf(o) ==
    /\ tr \in {"tcl", "svf"}
    /\ LET d0 == WithOracle(o)
           w == World(d0, svf)
       IN  Call("exec_progbuf", <<>>, d0,
                IF tr = "tcl" THEN call_OpenOCD_exec_progbuf(w)
                ELSE call_SVF_exec_progbuf(w))

Step(o) ==
    LET d0 == WithOracle(o)
        w == World(d0, svf)
    IN  Call("step", <<>>, d0,
             IF tr = "telnet" THEN call_hw_step(w)
             ELSE IF tr = "tcl" THEN call_OpenOCD_step(w, XLEN)
             ELSE call_SVF_step(w))

\* The command errors the debug module of the model ends a command with.
CmdErrs == {0, 1, 3, 7}

\* The busy/error poll, reached through commands that stay busy and end in
\* an error or none.
PollInit ==
    /\ InitSession({"telnet", "tcl"})
    /\ XLEN = 64
    /\ dm = InitDm(32)

PollNext ==
    \/ \E busy \in 0..MaxBusy, err \in CmdErrs, junk \in {0, 7} :
          AccessRegister(FALSE, GPR0_REGNO + 1, Oracle(busy, err, junk, TRUE))
    \/ CheckAbstrCmdErr
    \/ ClearAbstrCmdErr

PollSpec == PollInit /\ [][PollNext]_vars

\* access_register called with a width of its own, valid or not (0: a width that
\* Python takes as false, as the default None is).
AccessRegisterWidth(write, regno, addr_size) ==
    /\ Live
    /\ LET d0 == WithOracle(Benign)
           w == World(d0, svf)
       IN  Call("access_register", <<write, regno, addr_size>>, d0,
                IF tr = "telnet" THEN call_hw_access_register(w, write, regno, addr_size)
                ELSE call_OpenOCD_access_register(w, XLEN, write, Regno(regno), addr_size))

WordNext ==
    \E write \in BOOLEAN, regno \in {0, GPR0_REGNO + 1, DCSR_REGNO, Pow2(16) - 1},
       addr_size \in {0, 16, 32, 64, 128, 256} :
        AccessRegisterWidth(write, regno, addr_size)

WordSpec == PollInit /\ [][WordNext]_vars

\* Register reads after writes of values whose slots alternate between two
\* patterns, against a debug module that may still be busy when the slots are
\* read.
ReadNext ==
    \/ \E p \in SlotPatterns, q \in SlotPatterns :
          WriteData(GprName(1),
                    Norm(IF XLEN = 32 THEN q ELSE IF XLEN = 64 THEN p \o q
                         ELSE p \o q \o p \o q), Benign)
    \/ \E busy \in 0..MaxBusy : ReadData(GprName(1), Oracle(busy, 0, 0, TRUE))

ReadSpec == InitSession({"telnet", "tcl"}) /\ [][ReadNext]_vars

\* The test of the loop of check_abstrcmderr: Busy (bit 12) is clear.
PollExits_always(abstractcs) == TRUE

PollExits(abstractcs) == ShrAnd(abstractcs, 12, 1) = 0

\* check_abstrcmderr up to its loop: the first read of the command status.
PollEnter ==
    /\ Live
    /\ poll.pc = "idle"
    /\ \E w \in {IF tr = "telnet" THEN call_hw_read_dmi(World(dm, svf), ABSTRACTCS)
                  ELSE call_OpenOCD_read_dmi(World(dm, svf), ABSTRACTCS)} :
           /\ dm' = w.dm
           /\ poll' = [pc |-> "loop", abstractcs |-> StatusInt(w.ret),
                       slept |-> FALSE, ret |-> None]
    /\ UNCHANGED <<tr, XLEN, svf, hist, sock>>

\* One turn of the loop: return the decoded error field when Busy is clear,
\* else sleep and read the status again.
PollTurn ==
    /\ poll.pc = "loop"
    /\ IF PollExits(poll.abstractcs)
       THEN /\ poll' = [poll EXCEPT !.pc = "idle",
                                    !.ret = cmderr_translations[ShrAnd(poll.abstractcs, 8, 7)]]
            /\ UNCHANGED dm
       ELSE \E w \in {IF tr = "telnet" THEN call_hw_read_dmi(World(dm, svf), ABSTRACTCS)
                       ELSE call_OpenOCD_read_dmi(World(dm, svf), ABSTRACTCS)} :
                /\ dm' = w.dm
                /\ poll' = [poll EXCEPT !.abstractcs = StatusInt(w.ret), !.slept = TRUE]
    /\ UNCHANGED <<tr, XLEN, svf, hist, sock>>

\* The debug module takes longer over the command in progress.
DmStalls ==
    /\ dm.busy >= 1 /\ dm.busy < MaxBusy
    /\ dm' = [dm EXCEPT !.busy = @ + 1]
    /\ UNCHANGED <<tr, XLEN, svf, hist, sock, poll>>

\* Commands that keep the debug module busy, each followed by polls.
BusyNext ==
    \/ /\ poll.pc = "idle"
       /\ \E busy \in 1..MaxBusy, err \in {0, 3}, junk \in {0, 7} :
             AccessRegister(FALSE, GPR0_REGNO + 1, Oracle(busy, err, junk, TRUE))
    \/ PollEnter
    \/ PollTurn
    \/ DmStalls

BusySpec == PollInit /\ [][BusyNext]_vars

\* The session goes on running: a call in its loop takes its next turn.
BusyFairSpec == BusySpec /\ WF_vars(PollTurn)

\* Sequences of abstract commands, some ending in an error.
CmdInit ==
    /\ InitSession({"telnet", "tcl"})
    /\ XLEN = 64

CmdNext ==
    \/ \E busy \in {0, MaxBusy}, err \in {0, 3} :
          ReadData(GprName(1), Oracle(busy, err, 0, TRUE))
    \/ \E err \in {0, 3}, v \in Values(XLEN) :
          WriteData(GprName(1), v, Oracle(0, err, 0, TRUE))
    \/ \E err \in {0, 3} : Step(Oracle(0, err, 0, TRUE))
    \/ \E busy \in {0, MaxBusy} : ExecProgbuf(Oracle(busy, 0, 0, TRUE))
    \/ ClearAbstrCmdErr

CmdSpec == CmdInit /\ [][CmdNext]_vars

\* Lookups in the catalog of openocd_tcl_wrapper.py.
Resolve(register) ==
    LET w == World(dm, svf)
        r == call_translate_regno(w, register)
    IN  Call("translate_regno", <<register>>, dm,
             IF r.kind = "KeyError" THEN Raise(w, "KeyError") ELSE Return(w, r))

\* The names looked up: every name of the two-way alias table, some canonical
\* names of the catalog and a name of neither.
CatalogNames == (DOMAIN abi_translations) \cup {"X1", "X8", "F0", "DCSR", "DPC", "bogus"}

CatalogInit ==
    /\ InitSession({"tcl", "svf"})
    /\ XLEN = 64
    /\ dm = InitDm(32)

CatalogNext == \E register \in CatalogNames : Resolve(register)

CatalogSpec == CatalogInit /\ [][CatalogNext]_vars

DumpGPR ==
    /\ tr = "telnet"
    /\ LET w == World(dm, svf)
       IN  Call("dump_GPR", <<>>, dm, call_hw_dump_GPR(w, XLEN))

\* An interactive session that reads, writes and dumps registers.
DumpNext ==
    \/ DumpGPR
    \/ \E i \in {1, 16} : ReadData(GprName(i), Benign)
    \/ \E i \in {1, 16}, v \in Values(XLEN) : WriteData(GprName(i), v, Benign)

DumpSpec == InitSession({"telnet"}) /\ [][DumpNext]_vars

Halt(o) ==
    LET d0 == WithOracle(o)
        w == World(d0, svf)
    IN  Call("halt", <<>>, d0,
             IF tr = "telnet" THEN call_hw_halt(w)
             ELSE IF tr = "tcl" THEN call_OpenOCD_halt(w)
             ELSE call_SVF_halt(w))

Resume(o) ==
    LET d0 == WithOracle(o)
        w == World(d0, svf)
    IN  Call("resume", <<>>, d0,
             IF tr = "telnet" THEN call_hw_resume(w)
             ELSE IF tr = "tcl" THEN call_OpenOCD_resume(w)
             ELSE call_SVF_resume(w))

\* Sequences of halt and resume against a hart that acknowledges or does not.
HartNext ==
    \/ \E ack \in BOOLEAN : Halt(Oracle(0, 0, 0, ack))
    \/ \E ack \in BOOLEAN : Resume(Oracle(0, 0, 0, ack))

HartSpec == InitSession({"telnet", "tcl"}) /\ [][HartNext]_vars

ResetHart(o) ==
    LET d0 == WithOracle(o)
        w == World(d0, svf)
    IN  Call("reset_hart", <<>>, d0,
             IF tr = "telnet" THEN call_hw_reset_hart(w)
             ELSE IF tr = "tcl" THEN call_OpenOCD_reset_hart(w)
             ELSE call_SVF_reset_hart(w))

SetHaltOnReset ==
    LET w == World(dm, svf)
    IN  Call("set_haltonreset", <<>>, dm,
             IF tr = "telnet" THEN call_hw_set_haltonreset(w)
             ELSE IF tr = "tcl" THEN call_OpenOCD_set_haltonreset(w)
             ELSE call_SVF_set_haltonreset(w))

ClearHaltOnReset ==
    LET w == World(dm, svf)
    IN  Call("clear_haltonreset", <<>>, dm,
             IF tr = "telnet" THEN call_hw_clear_haltonreset(w)
             ELSE IF tr = "tcl" THEN call_OpenOCD_clear_haltonreset(w)
             ELSE call_SVF_clear_haltonreset(w))

\* The instructions of progbuff_test.py.
InstrList ==
    << <<15, 15, 7, 1, 8, 3, 9, 3>>, <<0, 0, 8, 4, 0, 4, 1, 3>>, <<0, 0, 1, 0, 0, 0, 7, 3>> >>

RECURSIVE Programs(_)
\* The programs of up to n instructions over the first two instructions.
Programs(n) ==
    IF n = 0 THEN {<<>>}
    ELSE Programs(n - 1)
         \cup {Append(p, InstrList[k]) : p \in {q \in Programs(n - 1) : Len(q) = n - 1},
                                      k \in 1..2}

WriteProgbuf(instructions) ==
    /\ tr \in {"tcl", "svf"}
    /\ LET w == World(dm, svf)
       IN  Call("write_progbuf", <<instructions>>, dm,
                IF tr = "tcl"
                THEN call_OpenOCD_write_progbuf(w, [k \in 1..Len(instructions) |-> S(instructions[k])])
                ELSE call_SVF_write_progbuf(w, [k \in 1..Len(instructions) |-> Norm(instructions[k])]))

ProgInit ==
    /\ InitSession({"tcl", "svf"})
    /\ XLEN = 64
    /\ dm = InitDm(32)

ProgNext ==
    \/ \E instructions \in Programs(MaxProg) : WriteProgbuf(instructions)
    \/ ExecProgbuf(Benign)

ProgSpec == ProgInit /\ [][ProgNext]_vars

\* Sequences of every hart and register operation of a session, against a hart
\* that acknowledges its requests or does not.
LifeNext ==
    \/ \E ack \in BOOLEAN : Halt(Oracle(0, 0, 0, ack))
    \/ \E ack \in BOOLEAN : Resume(Oracle(0, 0, 0, ack))
    \/ \E ack \in BOOLEAN : ResetHart(Oracle(0, 0, 0, ack))
    \/ Step(Benign)
    \/ SetHaltOnReset
    \/ ClearHaltOnReset
    \/ WriteData(GprName(1), SlotPatternList[1], Benign)
    \/ ReadData(GprName(1), Benign)
    \/ WriteProgbuf(<<InstrList[1]>>)
    \/ ExecProgbuf(Benign)

LifeInit ==
    /\ InitSession({"telnet", "tcl", "svf"})
    /\ dm = InitDm(32)

LifeSpec == LifeInit /\ [][LifeNext]_vars

\* The adapter's link goes bad: its reply to the k-th DMI write from now on
\* holds "Failed".
AdapterFault(k) ==
    /\ calls < MaxCalls
    /\ dm.failIn = 0
    /\ dm' = [dm EXCEPT !.failIn = k]
    /\ UNCHANGED <<tr, XLEN, svf, hist, sock, poll>>

WriteDmi(address, data) ==
    LET w == World(dm, svf)
    IN  Call("write_dmi", <<address, data>>, dm,
             IF tr = "telnet" THEN call_hw_write_dmi(w, address, S(data))
             ELSE IF tr = "tcl" THEN call_OpenOCD_write_dmi(w, address, S(data))
             ELSE call_SVF_write_dmi(w, address, Norm(data)))

\* read_dmi; the emitter's takes the value to compare with and a mask.
ReadDmi(address, expected_data, mask) ==
    LET w == World(dm, svf)
    IN  Call("read_dmi", <<address, expected_data, mask>>, dm,
             IF tr = "telnet" THEN call_hw_read_dmi(w, address)
             ELSE IF tr = "tcl" THEN call_OpenOCD_read_dmi(w, address)
             ELSE call_SVF_read_dmi(w, address, Norm(expected_data), mask))

\* The live session disconnects: __exit__ of the automation session, cleanup()
\* of the interactive one. The connection is closed when the handler closed it.
Disconnect(broken) ==
    /\ Live /\ sock.open
    /\ calls < MaxCalls
    /\ \E w \in {IF tr = "tcl" THEN call_OpenOCD___exit__(World(dm, svf), broken)
                 ELSE call_hw_cleanup(World(dm, svf))} :
          /\ hist' = Append(hist, [name |-> "disconnect", args |-> <<broken>>,
                                   oracle |-> dm.oracle, failIn |-> dm.failIn,
                                   log |-> w.log, exc |-> w.exc, ret |-> None])
          /\ sock' = [sock EXCEPT
                         !.open = \A i \in 1..Len(w.log) : w.log[i].op # "close"]
    /\ UNCHANGED <<tr, XLEN, dm, svf, poll>>

\* Calls of a live session up to and including its disconnect.
ExitNext ==
    \/ sock.open /\ \E ack \in BOOLEAN : Halt(Oracle(0, 0, 0, ack))
    \/ sock.open /\ \E ack \in BOOLEAN : Resume(Oracle(0, 0, 0, ack))
    \/ sock.open /\ \E data \in SlotPatterns : WriteDmi(DATA0, data)
    \/ \E broken \in BOOLEAN : Disconnect(broken)

ExitInit == InitSession({"telnet", "tcl"}) /\ dm = InitDm(32)

ExitSpec == ExitInit /\ [][ExitNext]_vars

\* The replies of the adapter to "scan_chain": two header lines, then up to
\* MaxTaps lines of taps, empty lines and error text.
ChainLines == {<<"0", "riscv.cpu", "Y">>, <<"1", "aux.tap", "Y">>, <<>>, <<"Error">>}
ChainHeader == << <<"TapName", "Enabled">>, <<"--", "--">> >>
ChainReplies == UNION {[1..n -> ChainLines] : n \in 0..MaxTaps}

\* The replies to "riscv info": up to MaxLines lines.
InfoLines == {<<"dm.abits", "7">>, <<"hart.xlen", "32">>, <<"hart.xlen", "64">>, <<>>}
InfoReplies == UNION {[1..n -> InfoLines] : n \in 1..MaxLines}

\* init() calls interrogate() once, right after connecting.
Interrogate(chain, info) ==
    /\ tr = "telnet" /\ hist = <<>>
    /\ \E w \in {call_hw_interrogate(World(dm, svf), chain, info)} :
          /\ hist' = Append(hist, [name |-> "interrogate", args |-> <<chain, info>>,
                                   oracle |-> dm.oracle, failIn |-> dm.failIn,
                                   log |-> w.log, exc |-> w.exc, ret |-> w.ret])
          /\ XLEN' = w.ret.XLEN
    /\ UNCHANGED <<tr, dm, svf, sock, poll>>

InterrogateInit ==
    /\ tr = "telnet"
    /\ XLEN = Unset
    /\ dm \in {InitDm(16), InitDm(32)}
    /\ svf = InitSvf(TRUE, 64)
    /\ hist = <<>>
    /\ sock = InitSock
    /\ poll = InitPoll

InterrogateNext ==
    \E taps \in ChainReplies, info \in InfoReplies : Interrogate(ChainHeader \o taps, info)

InterrogateSpec == InterrogateInit /\ [][InterrogateNext]_vars

CheckJtagId(expected_id) ==
    /\ tr = "svf"
    /\ LET w == World(dm, svf)
       IN  Call("check_jtag_id", <<expected_id>>, dm, call_SVF_check_jtag_id(w, expected_id))

WriteDtmcs(dtmhardreset, dmireset) ==
    /\ tr = "svf"
    /\ LET w == World(dm, svf)
       IN  Call("write_dtmcs", <<dtmhardreset, dmireset>>, dm,
                call_SVF_write_dtmcs(w, dtmhardreset, dmireset))

\* The identifier progbuff_test.py checks: 0x1002AC05.
JtagId == <<1, 0, 0, 2, 10, 12, 0, 5>>

\* Programs for the vector emitter: identifier checks, DTM and DMI accesses at
\* the status address and at the highest 7-bit address, register writes and
\* program-buffer runs.
EmitInit ==
    /\ InitSession({"svf"})
    /\ dm = InitDm(32)

EmitNext ==
    \/ CheckJtagId(JtagId)
    \/ \E dtmhardreset \in BOOLEAN, dmireset \in BOOLEAN : WriteDtmcs(dtmhardreset, dmireset)
    \/ \E address \in {DMSTATUS, Pow2(7) - 1}, data \in SlotPatterns : WriteDmi(address, data)
    \/ \E address \in {DMSTATUS, Pow2(7) - 1}, data \in SlotPatterns,
          mask \in {NoMask, Zero, <<15, 15>>, SlotPatternList[4]} :
          ReadDmi(address, data, mask)
    \/ WriteData(GprName(1), SlotPatternList[2], Benign)
    \/ ExecProgbuf(Benign)

EmitSpec == EmitInit /\ [][EmitNext]_vars

\* The emitter built with and without file output.
OutInit ==
    /\ tr = "svf"
    /\ XLEN \in {32, 64}
    /\ dm = InitDm(32)
    /\ svf \in {InitSvf(writeout, XLEN) : writeout \in BOOLEAN}
    /\ hist = <<>>
    /\ sock = InitSock
    /\ poll = InitPoll

OutSpec == OutInit /\ [][EmitNext]_vars

\* Steps of the emitter among its other operations.
TrackNext ==
    \/ Step(Benign)
    \/ Halt(Benign)
    \/ Resume(Benign)
    \/ \E data \in SlotPatterns : WriteData("DCSR", data, Benign)
    \/ WriteData(GprName(1), SlotPatternList[1], Benign)
    \/ ExecProgbuf(Benign)

TrackSpec == OutInit /\ [][TrackNext]_vars

\* Calls made over a link that fails a write.
FaultNext ==
    \/ \E k \in 1..MaxFail : AdapterFault(k)
    \/ WriteDmi(DATA0, SlotPatternList[1])
    \/ WriteData(GprName(1), SlotPatternList[2], Benign)
    \/ Halt(Benign)
    \/ ClearAbstrCmdErr

FaultSpec == PollInit /\ [][FaultNext]_vars

\* Names given to the register operations: one of the catalog of each engine,
\* and names of no table (lookups are case-sensitive).
SomeNames == {"X1", "x1 (ra)", "bogus", "dcsr"}

\* Whether the catalog of the transport, or its alias table, holds the name.
Known(register) ==
    IF tr = "telnet" THEN register \in DOMAIN hw_register_translations
    ELSE register \in (DOMAIN register_translations) \cup (DOMAIN abi_translations)

NameNext ==
    \/ \E register \in SomeNames : tr # "telnet" /\ Resolve(register)
    \/ \E register \in SomeNames : WriteData(register, SlotPatternList[1], Benign)
    \/ \E register \in SomeNames : ReadData(register, Benign)

NameSpec == InitSession({"telnet", "tcl", "svf"}) /\ [][NameNext]_vars

\* The bytes of the socket: ENDMSG ends a message, recv returns NoByte (b"")
\* once the peer has closed the connection and nothing is left to receive.
ENDMSG == "1a"
NoByte == ""
ReplyBytes == {"a", " "}

RECURSIVE Rstrip(_)
\* data.decode("ascii").rstrip()
Rstrip(data) ==
    IF Len(data) > 0 /\ data[Len(data)] = " " THEN Rstrip(SubSeq(data, 1, Len(data) - 1))
    ELSE data

\* OpenOCD.send up to the call of receive: the command is sent.
Send(cmd) ==
    /\ tr = "tcl"
    /\ calls < MaxCalls
    /\ sock.pc = "idle" /\ sock.open
    /\ sock' = [sock EXCEPT !.pc = "receiving", !.data = <<>>]
    /\ UNCHANGED <<tr, XLEN, dm, svf, hist, poll>>

\* One turn of the loop of OpenOCD.receive: recv(1) blocks while the connection
\* is open and nothing has arrived.
Recv ==
    /\ sock.pc = "receiving"
    /\ sock.inbox # <<>> \/ ~sock.open
    /\ LET byte == IF sock.inbox # <<>> THEN Head(sock.inbox) ELSE NoByte
           rest == IF sock.inbox # <<>> THEN Tail(sock.inbox) ELSE <<>>
       IN  IF byte = ENDMSG
           THEN /\ sock' = [sock EXCEPT !.pc = "idle", !.inbox = rest]
                /\ hist' = Append(hist, [name |-> "send", args |-> <<>>, oracle |-> dm.oracle,
                                         failIn |-> dm.failIn, log |-> <<>>, exc |-> "none",
                                         ret |-> Rstrip(sock.data)])
           ELSE /\ sock' = [sock EXCEPT !.inbox = rest,
                                        !.data = IF byte = NoByte THEN @ ELSE Append(@, byte),
                                        !.turn = IF byte = NoByte THEN 1 - @ ELSE @]
                /\ hist' = hist
    /\ UNCHANGED <<tr, XLEN, dm, svf, poll>>

\* The peer writes a byte of its reply, or closes the connection.
PeerSends(byte) ==
    /\ sock.open /\ sock.pc = "receiving"
    /\ Len(sock.inbox) + Len(sock.data) <= MaxReply
    /\ sock' = [sock EXCEPT !.inbox = Append(@, byte)]
    /\ UNCHANGED <<tr, XLEN, dm, svf, hist, poll>>

PeerCloses ==
    /\ sock.open
    /\ sock' = [sock EXCEPT !.open = FALSE]
    /\ UNCHANGED <<tr, XLEN, dm, svf, hist, poll>>

LinkInit ==
    /\ InitSession({"tcl"})
    /\ dm = InitDm(32)

LinkNext ==
    \/ Send("riscv dmi_read 0x11")
    \/ Recv
    \/ \E byte \in ReplyBytes \cup {ENDMSG} : PeerSends(byte)
    \/ PeerCloses

LinkSpec == LinkInit /\ [][LinkNext]_vars

\* The receive loop is not starved: a turn that can be taken is taken.
LinkFairSpec == LinkSpec /\ WF_vars(Recv)

\* The same calls made on each of the three transports, at width 64.
ProtoInit ==
    /\ InitSession({"telnet", "tcl", "svf"})
    /\ XLEN = 64

ProtoNext ==
    \/ Halt(Benign)
    \/ Resume(Benign)
    \/ \E v \in Values(XLEN) : WriteData(GprName(1), v, Benign)

ProtoSpec == ProtoInit /\ [][ProtoNext]_vars

\* Values of the Debug Control/Status register: the step bit (bit 2) clear
\* or set, other bits clear or set.
DcsrValues == {<<0>>, <<4>>, <<4, 0, 0, 0, 0, 0, 0, 3>>, <<4, 0, 0, 0, 0, 0, 0, 7>>}

StepInit ==
    /\ InitSession({"tcl", "svf"})
    /\ dm = InitDm(32)

StepNext ==
    \/ \E v \in DcsrValues : WriteData("DCSR", v, Benign)
    \/ Step(Benign)
    \/ Halt(Benign)

StepSpec == StepInit /\ [][StepNext]_vars

(***************************************************************************)
(* Claims.                                                                 *)
(***************************************************************************)
\* C1: round trip.  Whenever write_data of a value v that fits the width returned
\* normally and the next call is a read_data of the same register that returned
\* normally, against a debug module that completes each command at once and
\* without error, the value read is v.
C1_RoundTrip ==
    \A i \in 1..(Len(hist) - 1) :
        (/\ hist[i].name = "write_data" /\ hist[i].exc = "none"
         /\ Fits(hist[i].args[2], XLEN)
         /\ hist[i + 1].name = "read_data" /\ hist[i + 1].exc = "none"
         /\ hist[i + 1].args[1] = hist[i].args[1])
        => PyInt16(hist[i + 1].ret) = Norm(hist[i].args[2])

\* C3: write_data of a value that does not fit the width raises and issues no
\* transport write, on every transport.
C3_TooWideRejected ==
    \A i \in 1..Len(hist) :
        (hist[i].name = "write_data" /\ ~Fits(hist[i].args[2], XLEN))
        => (hist[i].exc # "none" /\ hist[i].log = <<>>)

\* The DMI operations of a call that read the abstract command status.
IsStatusRead(e) == e.op = "read" /\ e.addr = ABSTRACTCS
StatusBusy(e) == ShrAnd(DigitsToInt(e.data), 12, 1) = 1
StatusCmdErr(e) == ShrAnd(DigitsToInt(e.data), 8, 7)

\* C2: the busy/error poll never decodes an error from a status read with Busy
\* set: whenever check_abstrcmderr returns, the last thing it did is a status
\* read with Busy = 0, the CommandError it returns is the decoding of that
\* read's error field, and every earlier status read of the call had Busy = 1.
C2_ErrorDecodedWhenNotBusy ==
    \A i \in 1..Len(hist) :
        (hist[i].name = "check_abstrcmderr" /\ hist[i].exc = "none")
        => LET l == hist[i].log
           IN  /\ Len(l) >= 1
               /\ \A k \in 1..Len(l) : IsStatusRead(l[k])
               /\ ~StatusBusy(l[Len(l)])
               /\ hist[i].ret = cmderr_translations[StatusCmdErr(l[Len(l)])]
               /\ \A k \in 1..(Len(l) - 1) : StatusBusy(l[k])

\* C2 witness: a poll that saw Busy with a non-zero error field shown, and then
\* returned no error from the first read with Busy = 0.
C2_Witness ==
    /\ Len(hist) >= 1
    /\ Last.name = "check_abstrcmderr" /\ Last.exc = "none"
    /\ Len(Last.log) >= 2
    /\ StatusBusy(Last.log[1]) /\ StatusCmdErr(Last.log[1]) # 0
    /\ Last.ret = None

\* A call that ended with a command error raised by the poll.
EndedWithCmdErr(c) == c.exc \in {cmderr_translations[e] : e \in 1..7}
IssuesCommand(c) == \E k \in 1..Len(c.log) : c.log[k].op = "write" /\ c.log[k].addr = COMMAND

\* C9: after a call ended with a command error, no later call writes a command
\* word unless a clear_abstrcmd_err returned normally in between.
C9_NoCommandUntilCleared ==
    \A i \in 1..Len(hist) : \A j \in (i + 1)..Len(hist) :
        (EndedWithCmdErr(hist[i]) /\ IssuesCommand(hist[j]))
        => \E k \in (i + 1)..(j - 1) :
               hist[k].name = "clear_abstrcmd_err" /\ hist[k].exc = "none"

\* C10: clear_abstrcmd_err writes the acknowledge pattern first, polls the status
\* after it, and returns normally only if the last status read shows Busy = 0 and
\* no error.
C10_ClearVerified ==
    \A i \in 1..Len(hist) :
        hist[i].name = "clear_abstrcmd_err"
        => LET l == hist[i].log
           IN  /\ Len(l) >= 2
               /\ l[1] = WriteEntry(ABSTRACTCS, CMDERR_W1C.d)
               /\ IsStatusRead(l[Len(l)])
               /\ hist[i].exc = "none"
                  => (~StatusBusy(l[Len(l)]) /\ StatusCmdErr(l[Len(l)]) = 0)

\* C4: translate_regno gives the same register number for a canonical name and
\* for its ABI alias: every lookup of a name of the two-way alias table returns
\* a register number, and a lookup of the name it is paired with returns the
\* same.
C4_AliasResolves ==
    \A i \in 1..Len(hist) :
        (hist[i].name = "translate_regno" /\ hist[i].args[1] \in DOMAIN abi_translations)
        => /\ hist[i].exc = "none"
           /\ hist[i].ret.kind = "regno"
           /\ \A j \in 1..Len(hist) :
                  hist[j].args[1] = abi_translations[hist[i].args[1]]
                  => (hist[j].exc = "none" /\ hist[j].ret = hist[i].ret)

\* The acknowledge writes of a call, and the registers a dump reports.
ClearWrites(c) ==
    {k \in 1..Len(c.log) : c.log[k] = WriteEntry(ABSTRACTCS, CMDERR_W1C.d)}
DumpedNames(c) == {c.ret[k][1] : k \in 1..Len(c.ret)}

\* C5: dump_GPR against a debug module without registers 16-31 returns normally,
\* clears one command error and reports registers 1..16 only.
C5_DumpPastUnimplemented ==
    \A i \in 1..Len(hist) :
        (hist[i].name = "dump_GPR" /\ (GPR0_REGNO + 16) \notin DOMAIN dm.regs)
        => /\ hist[i].exc = "none"
           /\ Cardinality(ClearWrites(hist[i])) = 1
           /\ DumpedNames(hist[i]) \subseteq {"X" \o ToString(n) : n \in 1..16}

\* The position of the first write of a request to dmcontrol in a call, 0 if none.
RequestAt(c, req) ==
    IF \E k \in 1..Len(c.log) : c.log[k] = WriteEntry(DMCONTROL, req)
    THEN CHOOSE k \in 1..Len(c.log) :
             /\ c.log[k] = WriteEntry(DMCONTROL, req)
             /\ \A m \in 1..(k - 1) : c.log[m] # WriteEntry(DMCONTROL, req)
    ELSE 0

\* The call read dmstatus after its request and returned normally only if the
\* field of the acknowledgement (two bits from bit sh) was set in that read.
VerifiedAck(c, req, sh) ==
    LET k == RequestAt(c, req)
    IN  /\ k > 0
        /\ \E m \in (k + 1)..Len(c.log) :
               /\ c.log[m].op = "read" /\ c.log[m].addr = DMSTATUS
               /\ c.exc = "none" => ShrAnd(DigitsToInt(c.log[m].data), sh, 3) # 0

\* C6: every halt reads dmstatus after its own halt request and returns
\* normally only if Halted is set in that read; every resume does the same with
\* ResumeAck.
C6_EachCallVerifies ==
    \A i \in 1..Len(hist) :
        /\ hist[i].name = "halt" => VerifiedAck(hist[i], HALTREQ.d, 8)
        /\ hist[i].name = "resume" => VerifiedAck(hist[i], RESUMEREQ.d, 16)

\* C7: write_progbuf of n instructions writes instruction i to 0x20 + i, in
\* ascending order, and nothing else; exec_progbuf writes the command word
\* 1 << 18 to the command address and nothing else, so that in a load followed
\* by an execute the command word comes after all slot writes.
C7_ProgbufThenExec ==
    \A i \in 1..Len(hist) :
        /\ (hist[i].name = "write_progbuf" /\ hist[i].exc = "none")
           => LET p == hist[i].args[1]
              IN  hist[i].log = [k \in 1..Len(p) |-> WriteEntry(PROGBUF0 + k - 1, Norm(p[k]))]
        /\ (hist[i].name = "exec_progbuf" /\ hist[i].exc = "none")
           => hist[i].log = <<WriteEntry(COMMAND, <<4, 0, 0, 0, 0>>)>>

\* C7 witness: three instructions loaded, then executed.
C7_Witness ==
    /\ Len(hist) = 2
    /\ hist[1].name = "write_progbuf" /\ hist[1].exc = "none"
    /\ Len(hist[1].args[1]) = 3 /\ Len(hist[1].log) = 3
    /\ hist[2].name = "exec_progbuf" /\ hist[2].exc = "none"
    /\ Len(hist[2].log) = 1

\* The DMI writes of a call, in order.
WritesOf(c) == SelectSeq(c.log, LAMBDA e : e.op = "write")

\* C11: when the reply to a DMI write holds "Failed", write_dmi raises: a call
\* whose k-th write is the one that fails ends with an exception, and that
\* write is the last DMI operation of the call.
C11_FailedWritePropagates ==
    \A i \in 1..Len(hist) :
        (hist[i].failIn >= 1 /\ Len(WritesOf(hist[i])) >= hist[i].failIn)
        => /\ hist[i].exc # "none"
           /\ Len(WritesOf(hist[i])) = hist[i].failIn
           /\ hist[i].log[Len(hist[i].log)].op = "write"

C13_ClosedConnectionEnds ==
    (sock.pc = "receiving" /\ ~sock.open /\ sock.inbox = <<>>) ~> (sock.pc # "receiving")

\* The DMI writes the vector emitter issues for a call, from its state after
\* construction.
EmitterWrites(c) ==
    LET w == World(InitDm(32), InitSvf(TRUE, XLEN))
    IN  WritesOf(IF c.name = "halt" THEN call_SVF_halt(w)
                 ELSE IF c.name = "resume" THEN call_SVF_resume(w)
                 ELSE call_SVF_write_data(w, "X1", c.args[2]))

\* C14: every halt, resume and register write issues, on each transport, the
\* DMI writes the vector emitter issues for it: same addresses, same data, same
\* order.
C14_SameWritesOnEveryTransport ==
    \A i \in 1..Len(hist) :
        (hist[i].name \in {"halt", "resume", "write_data"} /\ hist[i].exc = "none")
        => WritesOf(hist[i]) = EmitterWrites(hist[i])

\* C15: step() leaves the Debug Control/Status register as it found it: on the
\* automation session, a step right after a write of v to DCSR leaves v in
\* DCSR; on the emitter, whose DCSR field is 0 after construction, a first
\* step leaves 0 in it.
C15_StepRestoresDcsr ==
    /\ (/\ tr = "tcl" /\ Len(hist) = 2
        /\ hist[1].name = "write_data" /\ hist[1].args[1] = "DCSR" /\ hist[1].exc = "none"
        /\ hist[2].name = "step" /\ hist[2].exc = "none")
       => dm.regs[DCSR_REGNO] = Norm(hist[1].args[2])
    /\ (tr = "svf" /\ Len(hist) = 1 /\ hist[1].name = "step" /\ hist[1].exc = "none")
       => svf.DCSR = Zero

\* The slots of a value: slot i (from 0) holds bits 32i .. 32i+31.
SlotValue(v, i) == And32(ShrDigits(Norm(v), 8 * i))
IsCommandWrite(e) == e.op = "write" /\ e.addr = COMMAND

\* C16: write_data writes the slots of the value to 0x4, 0x5 in ascending
\* order, least-significant first, then one command word with the write bit
\* set, then only reads the command status; it returns normally exactly when
\* the last status read shows no error.
C16_WriteOrder ==
    \A i \in 1..Len(hist) :
        hist[i].name = "write_data"
        => LET l == hist[i].log
               v == hist[i].args[2]
           IN  /\ Len(l) >= 4
               /\ l[1] = WriteEntry(DATA0, SlotValue(v, 0))
               /\ l[2] = WriteEntry(DATA0 + 1, SlotValue(v, 1))
               /\ IsCommandWrite(l[3]) /\ BitOf(l[3].data, 16) = 1
               /\ \A k \in 4..Len(l) : IsStatusRead(l[k])
               /\ (hist[i].exc = "none") <=> (StatusCmdErr(l[Len(l)]) = 0)
               /\ hist[i].exc # "none"
                  => hist[i].exc = cmderr_translations[StatusCmdErr(l[Len(l)])]

\* C16 witness: a write of a value with two different non-zero slots that
\* ended with a command error, after one that returned.
C16_Witness ==
    /\ Len(hist) = 2
    /\ hist[1].name = "write_data" /\ hist[1].exc = "none"
    /\ hist[2].name = "write_data" /\ hist[2].exc = "exception"
    /\ SlotValue(hist[2].args[2], 0) # SlotValue(hist[2].args[2], 1)
    /\ SlotValue(hist[2].args[2], 1) # Zero

\* The message-register addresses a call wrote (op = "write") or read
\* (op = "read"), in order.
SlotAddrs(c, op) ==
    LET l == SelectSeq(c.log, LAMBDA e : e.op = op /\ e.addr \in DATA0..(DATA0 + 3))
    IN  [k \in 1..Len(l) |-> l[k].addr]

\* C17: a register access spans XLEN / 32 message registers: a write_data that
\* returned wrote the addresses 0x4, 0x4 + 1, ... (XLEN / 32 of them), each
\* once, and a read_data that returned read the same addresses, on every
\* transport.
C17_SlotsPerWidth ==
    \A i \in 1..Len(hist) :
        LET span == [k \in 1..(XLEN \div 32) |-> DATA0 + k - 1]
        IN  /\ (hist[i].name = "write_data" /\ hist[i].exc = "none")
               => SlotAddrs(hist[i], "write") = span
            /\ (hist[i].name = "read_data" /\ hist[i].exc = "none")
               => SlotAddrs(hist[i], "read") = span

\* The fields of a command word.
WordField(data, lo, n) == ShrAnd(DigitsToInt(data), lo, Pow2(n) - 1)
AarSize(addr_size) == IF addr_size = 32 THEN 2 ELSE IF addr_size = 64 THEN 3 ELSE 4

\* C18: access_register given a width of 32, 64 or 128 writes one word to 0x17
\* whose bits 0-15 are the regno, bit 16 the direction, bit 17 set, bits 20-22
\* log2(width / 8) and every other bit clear, the same word on the interactive
\* and the automation session; given any other width it raises and writes
\* nothing.
C18_CommandWord ==
    \A i \in 1..Len(hist) :
        hist[i].name = "access_register"
        => LET write == hist[i].args[1]
               regno == hist[i].args[2]
               addr_size == hist[i].args[3]
               l == hist[i].log
           IN  IF addr_size \in {32, 64, 128}
               THEN /\ hist[i].exc = "none"
                    /\ Len(l) = 1 /\ IsCommandWrite(l[1])
                    /\ WordField(l[1].data, 0, 16) = regno
                    /\ WordField(l[1].data, 16, 1) = (IF write THEN 1 ELSE 0)
                    /\ WordField(l[1].data, 17, 1) = 1
                    /\ WordField(l[1].data, 18, 2) = 0
                    /\ WordField(l[1].data, 20, 3) = AarSize(addr_size)
                    /\ WordField(l[1].data, 23, 9) = 0
               ELSE hist[i].exc # "none" /\ l = <<>>

RECURSIVE SlotsJoined(_, _)
\* The texts of the first n slot reads of a read_data log (entries 2 .. n + 1),
\* eight digits each, the last read first.
SlotsJoined(l, n) ==
    IF n = 0 THEN <<>>
    ELSE (Zeros(8 - Len(l[n + 1].data)) \o l[n + 1].data) \o SlotsJoined(l, n - 1)

\* C19: a read_data that returns has written one command word, with the write
\* bit clear, then read the slots 0x4, 0x5, ... in ascending order, then only
\* read the command status; the text it returns is "0x" and the slots read,
\* eight digits each, the highest slot first.
C19_ReadAssembles ==
    \A i \in 1..Len(hist) :
        (hist[i].name = "read_data" /\ hist[i].exc = "none")
        => LET l == hist[i].log
               n == XLEN \div 32
           IN  /\ Len(l) >= n + 2
               /\ IsCommandWrite(l[1]) /\ BitOf(l[1].data, 16) = 0
               /\ WritesOf(hist[i]) = <<l[1]>>
               /\ \A k \in 1..n : l[k + 1].op = "read" /\ l[k + 1].addr = DATA0 + k - 1
               /\ \A k \in (n + 2)..Len(l) : IsStatusRead(l[k])
               /\ hist[i].ret = S(SlotsJoined(l, n))

\* C19 witness: a read of two or more slots that returned, whose slot at 0x4
\* held a value with leading zeros and whose slot at 0x5 did not hold zero.
C19_Witness ==
    /\ Len(hist) = 2 /\ XLEN >= 64
    /\ hist[2].name = "read_data" /\ hist[2].exc = "none"
    /\ Len(hist[2].log[2].data) < 8
    /\ hist[2].log[3].data # Zero

\* C20: a check_abstrcmderr whose last status read shows Busy = 0 returns, and
\* returns the decoding of the error field of that read (None for 0 only);
\* one whose last status read shows Busy = 1 does not return at that turn but
\* stays in its loop, however often that happened before.
C20_BusyPoll ==
    /\ (poll.pc = "loop" /\ ShrAnd(poll.abstractcs, 12, 1) = 0) ~> (poll.pc = "idle")
    /\ [][(poll.pc = "loop" /\ poll'.pc = "idle")
          => /\ ShrAnd(poll.abstractcs, 12, 1) = 0
             /\ poll'.ret = cmderr_translations[ShrAnd(poll.abstractcs, 8, 7)]
             /\ (poll'.ret = None) <=> (ShrAnd(poll.abstractcs, 8, 7) = 0)]_vars
    /\ [][(poll.pc = "loop" /\ ShrAnd(poll.abstractcs, 12, 1) = 1)
          => poll'.pc = "loop"]_vars

\* C20 witness: a poll that slept, then returned an error from the first status
\* read with Busy = 0.
C20_Witness ==
    /\ poll.pc = "idle" /\ poll.slept
    /\ poll.ret = cmderr_translations[3]
    /\ ShrAnd(poll.abstractcs, 12, 1) = 0

\* C21: halt() writes the halt request to 0x10, reads the status at 0x11 and,
\* when the status shows the hart halted (bits 8-9), writes 0x10 again with the
\* halt request clear and returns; when the status does not show it, halt()
\* raises after the read.  It issues no other DMI operation.
C21_HaltSequence ==
    \A i \in 1..Len(hist) :
        hist[i].name = "halt"
        => LET l == hist[i].log
           IN  /\ Len(l) >= 2
               /\ l[1] = WriteEntry(DMCONTROL, HALTREQ.d)
               /\ l[2].op = "read" /\ l[2].addr = DMSTATUS
               /\ (hist[i].exc = "none") <=> (ShrAnd(DigitsToInt(l[2].data), 8, 3) # 0)
               /\ IF hist[i].exc = "none"
                  THEN /\ Len(l) = 3
                       /\ l[3].op = "write" /\ l[3].addr = DMCONTROL
                       /\ BitOf(l[3].data, 31) = 0
                  ELSE Len(l) = 2

\* C22: reset_hart() writes the reset request and then its release to 0x10 and
\* reads the status at 0x11 once; when the status shows the reset (bits 18-19
\* both set) it writes the acknowledgement to 0x10 as its last operation and
\* returns, and otherwise it raises without writing the acknowledgement.
C22_ResetSequence ==
    \A i \in 1..Len(hist) :
        hist[i].name = "reset_hart"
        => LET l == hist[i].log
           IN  /\ Len(l) >= 3
               /\ l[1] = WriteEntry(DMCONTROL, NDMRESET.d)
               /\ l[2] = WriteEntry(DMCONTROL, DMACTIVE.d)
               /\ l[3].op = "read" /\ l[3].addr = DMSTATUS
               /\ (hist[i].exc = "none") <=> (ShrAnd(DigitsToInt(l[3].data), 18, 3) = 3)
               /\ IF hist[i].exc = "none"
                  THEN Len(l) = 4 /\ l[4] = WriteEntry(DMCONTROL, ACKHAVERESET.d)
                  ELSE Len(l) = 3

\* What a DMI operation of step() is: a register read command ("rd"), a
\* register write command ("wr"), a resume request ("resume"), or none of them.
StepEvent(e) ==
    IF IsCommandWrite(e) THEN (IF BitOf(e.data, 16) = 1 THEN "wr" ELSE "rd")
    ELSE IF e.op = "write" /\ e.addr = DMCONTROL /\ BitOf(e.data, 30) = 1 THEN "resume"
    ELSE "other"

StepEvents(l) ==
    LET k == SelectSeq(l, LAMBDA e : StepEvent(e) # "other")
    IN  [n \in 1..Len(k) |-> StepEvent(k[n])]

\* C23: on a live session a step() that returns has read DCSR, written it back
\* with the step bit set only if the bit was read clear, requested one resume,
\* and then written DCSR with the step bit clear: one resume request in all,
\* and the write that clears the bit after it.
C23_StepSequence ==
    \A i \in 1..Len(hist) :
        (Live /\ hist[i].name = "step" /\ hist[i].exc = "none")
        => LET l == hist[i].log
               reads == SelectSeq(l, LAMBDA e : e.op = "read" /\ e.addr = DATA0)
               writes == SelectSeq(l, LAMBDA e : e.op = "write" /\ e.addr = DATA0)
           IN  /\ Len(reads) = 1
               /\ IF BitOf(reads[1].data, 2) = 0
                  THEN /\ StepEvents(l) = <<"rd", "wr", "resume", "wr">>
                       /\ Len(writes) = 2
                       /\ BitOf(writes[1].data, 2) = 1
                       /\ BitOf(writes[2].data, 2) = 0
                  ELSE /\ StepEvents(l) = <<"rd", "resume", "wr">>
                       /\ Len(writes) = 1
                       /\ BitOf(writes[1].data, 2) = 0

RECURSIVE AllOps(_)
\* The DMI operations of the first n calls of the session, in order.
AllOps(n) == IF n = 0 THEN <<>> ELSE AllOps(n - 1) \o hist[n].log

\* Whether haltreq (bit 31), resumereq (bit 30) and ackhavereset (bit 28) are
\* all clear in a value written to 0x10.
RequestsClear(n) == BitOf(n, 31) = 0 /\ BitOf(n, 30) = 0 /\ BitOf(n, 28) = 0

\* C24: whenever a command word is written to 0x17, the last value written to
\* 0x10 before it in the session, if there is one, has haltreq, resumereq and
\* ackhavereset clear.
C24_RequestsClearAtCommand ==
    LET l == AllOps(Len(hist))
    IN  \A k \in 1..Len(l) :
            IsCommandWrite(l[k])
            => \A j \in 1..(k - 1) :
                   (/\ l[j].op = "write" /\ l[j].addr = DMCONTROL
                    /\ \A m \in (j + 1)..(k - 1) : ~(l[m].op = "write" /\ l[m].addr = DMCONTROL))
                   => RequestsClear(l[j].data)

\* The instruction-select directives of the artifact, and the instruction
\* selected after its first n directives.
Selects == SelectSeq(svf.out, LAMBDA x : x.k = "SIR")
RECURSIVE SelectedAfter(_)
SelectedAfter(n) ==
    IF n = 0 THEN IR_IDCODE
    ELSE IF svf.out[n].k = "SIR" THEN DigitsToInt(svf.out[n].tdi)
    ELSE SelectedAfter(n - 1)

\* C25: in the artifact no instruction-select directive names the instruction
\* already selected, the instruction the emitter tracks is the one selected
\* after the last directive, and every 41-bit data directive comes while the
\* DMI instruction (0x11) is selected.
C25_InstructionTracked ==
    /\ \A n \in 1..Len(svf.out) :
          svf.out[n].k = "SIR" => DigitsToInt(svf.out[n].tdi) # SelectedAfter(n - 1)
    /\ svf.INSTR = SelectedAfter(Len(svf.out))
    /\ \A n \in 1..Len(svf.out) :
          (svf.out[n].k = "SDR" /\ svf.out[n].n = 41) => SelectedAfter(n) = IR_DMI

\* C25 witness: an artifact with two DMI data directives under one select of
\* the DMI instruction, followed by the select of another instruction.
C25_Witness ==
    /\ Len(Selects) = 2
    /\ DigitsToInt(Selects[1].tdi) = IR_DMI
    /\ svf.INSTR # IR_DMI
    /\ Len(SelectSeq(svf.out, LAMBDA x : x.k = "SDR" /\ x.n = 41)) >= 2

\* The fields of a 41-bit DMI payload: op in bits 0-1, address in bits 34-40.
OpField(p) == BitOf(p, 0) + 2 * BitOf(p, 1)
AddrField(p) ==
    BitOf(p, 34) + 2 * BitOf(p, 35) + 4 * BitOf(p, 36) + 8 * BitOf(p, 37)
        + 16 * BitOf(p, 38) + 32 * BitOf(p, 39) + 64 * BitOf(p, 40)

\* A directive that shifts in a DMI write of the command address.
IsCommandDirective(x) ==
    /\ x.k = "SDR" /\ x.n = 41 /\ "tdi" \in DOMAIN x
    /\ OpField(x.tdi) = 2 /\ AddrField(x.tdi) = COMMAND

\* C26: in the artifact every directive that writes a command word to 0x17 is
\* followed at once by an idle-cycle directive; the one after the command word
\* of exec_progbuf (1 << 18) runs 10 cycles.
C26_CommandThenSettle ==
    \A n \in 1..Len(svf.out) :
        IsCommandDirective(svf.out[n])
        => /\ n < Len(svf.out)
           /\ svf.out[n + 1].k = "RUNTEST"
           /\ (\A i \in 0..31 : BitOf(svf.out[n].tdi, 2 + i) = (IF i = 18 THEN 1 ELSE 0))
              => svf.out[n + 1].n = 10

\* C26 witness: an artifact with the command word of a register write and the
\* command word of exec_progbuf.
C26_Witness ==
    /\ Len(hist) = 2
    /\ hist[1].name = "write_data" /\ hist[1].exc = "none"
    /\ hist[2].name = "exec_progbuf" /\ hist[2].exc = "none"
    /\ Len(SelectSeq(svf.out, IsCommandDirective)) = 2

\* Bits lo .. lo+31 of p are the 32 bits of v.
SameBits(p, lo, v) == \A i \in 0..31 : BitOf(p, lo + i) = BitOf(v, i)

FitsIn41(p) == \A k \in 41..(4 * Len(p)) : BitOf(p, k) = 0

\* The two directives of the last read_dmi carry its address, expected data
\* and mask in their fields, for a mask drawn from masks.
ReadEncoded(masks) ==
    (tr = "svf" /\ hist # <<>> /\ Last.name = "read_dmi" /\ Last.args[3] \in masks)
    => LET a == Last.args
           n == Len(svf.out)
       IN  /\ n >= 2
           /\ LET req == svf.out[n - 1]
                  cmp == svf.out[n]
              IN  /\ req.k = "SDR" /\ req.n = 41 /\ "tdi" \in DOMAIN req
                  /\ FitsIn41(req.tdi)
                  /\ OpField(req.tdi) = 1 /\ AddrField(req.tdi) = a[1]
                  /\ SameBits(req.tdi, 2, Zero)
                  /\ cmp.k = "SDR" /\ cmp.n = 41 /\ "tdo" \in DOMAIN cmp
                  /\ FitsIn41(cmp.tdo)
                  /\ OpField(cmp.tdo) = 0 /\ SameBits(cmp.tdo, 2, a[2])
                  /\ IF a[3] = NoMask THEN "mask" \notin DOMAIN cmp
                     ELSE /\ "mask" \in DOMAIN cmp
                          /\ OpField(cmp.mask) = 3 /\ SameBits(cmp.mask, 2, a[3])

\* The directive of the last write_dmi carries its address and data.
WriteEncoded ==
    (tr = "svf" /\ hist # <<>> /\ Last.name = "write_dmi")
    => LET a == Last.args
           x == svf.out[Len(svf.out)]
       IN  /\ x.k = "SDR" /\ x.n = 41 /\ "tdi" \in DOMAIN x
           /\ FitsIn41(x.tdi)
           /\ OpField(x.tdi) = 2 /\ AddrField(x.tdi) = a[1] /\ SameBits(x.tdi, 2, a[2])

\* C27: read_dmi of the emitter writes a 41-bit read request (op 1, data 0)
\* and then a 41-bit compare whose expected value is the expected data in the
\* data field with op 0 and, when a mask is given, whose mask is the mask in
\* the data field with both op bits set; the payloads of reads and writes fit
\* in 41 bits with the fields apart.
C27_ReadEncoding ==
    /\ ReadEncoded({NoMask, Zero, <<15, 15>>, SlotPatternList[4]})
    /\ WriteEncoded

\* The same with the masks that are not 0.
C27_ReadEncodingNonzero ==
    /\ ReadEncoded({NoMask, <<15, 15>>, SlotPatternList[4]})
    /\ WriteEncoded

\* The disconnects of the given transports sent "exit" and then closed the
\* connection, and closed it as well when the send failed.
ExitThenClose(transports) ==
    \A i \in 1..Len(hist) :
        (hist[i].name = "disconnect" /\ tr \in transports)
        => LET l == hist[i].log
           IN  /\ ~sock.open
               /\ l # <<>> /\ l[Len(l)].op = "close"
               /\ \A j \in 1..(Len(l) - 1) : l[j].op = "send"
               /\ ~hist[i].args[1] => (Len(l) = 2 /\ l[1] = SendEntry("exit"))

\* C28: a live session that disconnects sends the exit command first and then
\* closes its connection, and the connection ends closed also when the send
\* fails, on the interactive and on the automation session.
C28_ExitThenClose == ExitThenClose({"telnet", "tcl"})

\* The same on the automation session alone.
C28_AutomationExit == ExitThenClose({"tcl"})

\* C29: set_haltonreset and clear_haltonreset each issue one DMI operation and
\* no more, on every transport: the write of 0x9, respectively 0x5, to the
\* control register 0x10, both with the dmactive bit set; they read nothing
\* and raise nothing.
C29_HaltOnResetOneWrite ==
    \A i \in 1..Len(hist) :
        /\ hist[i].name = "set_haltonreset"
           => /\ hist[i].log = <<WriteEntry(DMCONTROL, <<9>>)>>
              /\ hist[i].exc = "none"
        /\ hist[i].name = "clear_haltonreset"
           => /\ hist[i].log = <<WriteEntry(DMCONTROL, <<5>>)>>
              /\ hist[i].exc = "none"
        /\ hist[i].name \in {"set_haltonreset", "clear_haltonreset"}
           => BitOf(hist[i].log[1].data, 0) = 1

\* C29 witness: a session that set and then cleared halt-on-reset.
C29_Witness ==
    /\ Len(hist) = 2
    /\ hist[1].name = "set_haltonreset"
    /\ hist[2].name = "clear_haltonreset"
    /\ hist[1].log # hist[2].log

\* The lines of taps of a scan-chain reply and the widths an info reply reports.
TapsOf(chain) == SelectSeq(SubSeq(chain, 3, Len(chain)), LAMBDA tap : tap # <<>>)
ReportedWidths(info) ==
    {WordInt(XlenMatch(info[k])) : k \in {j \in 1..Len(info) : XlenMatch(info[j]) # ""}}

\* C30: interrogate() takes the name of the first tap of the scan chain, sets
\* XLEN to the width that a line of the target-info reply reports, wherever
\* that line stands in the reply, and fails when the tap or the width is not
\* to be found.
C30_Interrogate ==
    \A i \in 1..Len(hist) :
        hist[i].name = "interrogate"
        => LET taps == TapsOf(hist[i].args[1])
               widths == ReportedWidths(hist[i].args[2])
               found == taps # <<>> /\ TapMatch(taps[1]) # ""
           IN  /\ (found /\ widths # {})
                  => /\ hist[i].exc = "none"
                     /\ hist[i].ret.tapname = taps[1][2]
                     /\ XLEN \in widths
               /\ (~found \/ widths = {}) => hist[i].exc # "none"

\* The same for the replies whose first line reports the width.
C30_WidthOnFirstLine ==
    \A i \in 1..Len(hist) :
        (hist[i].name = "interrogate" /\ XlenMatch(hist[i].args[2][1]) # "")
        => LET taps == TapsOf(hist[i].args[1])
               found == taps # <<>> /\ TapMatch(taps[1]) # ""
           IN  IF found
               THEN /\ hist[i].exc = "none"
                    /\ hist[i].ret.tapname = taps[1][2]
                    /\ XLEN = WordInt(XlenMatch(hist[i].args[2][1]))
               ELSE hist[i].exc # "none"

\* Entry j of a log reads a message-register slot; entry k is a status read
\* that shows Busy (bit 12 of abstractcs) clear.
IsSlotRead(l, j) == l[j].op = "read" /\ l[j].addr \in DATA0 .. DATA0 + 3
IsIdleStatus(l, k) == l[k].op = "read" /\ l[k].addr = ABSTRACTCS /\ BitOf(l[k].data, 12) = 0

\* C31: every slot that a read_data which returned has read was read after the
\* command word was written and after a status read that showed Busy clear.
C31_SlotsReadWhenIdle ==
    \A i \in 1..Len(hist) :
        (hist[i].name = "read_data" /\ hist[i].exc = "none")
        => LET l == hist[i].log
           IN  \A j \in 1..Len(l) :
                   IsSlotRead(l, j)
                   => \E c \in 1..(j - 1), k \in 1..(j - 1) :
                          /\ c < k
                          /\ l[c].op = "write" /\ l[c].addr = COMMAND
                          /\ IsIdleStatus(l, k)

\* A read_data returned although a slot it read was read while the command
\* was in flight: the status read after the slot reads still showed Busy.
C31_NoSlotReadInFlight ==
    \A i \in 1..Len(hist) :
        (hist[i].name = "read_data" /\ hist[i].exc = "none")
        => LET l == hist[i].log
           IN  ~ \E j \in 1..Len(l), k \in 1..Len(l) :
                   /\ j < k /\ IsSlotRead(l, j)
                   /\ l[k].op = "read" /\ l[k].addr = ABSTRACTCS /\ BitOf(l[k].data, 12) = 1

\* The writes to the control register 0x10 in a log, in order.
ControlWrites(l) == SelectSeq(l, LAMBDA e : e.op = "write" /\ e.addr = DMCONTROL)

\* C32: a halt() of the automation session that raises because the status did
\* not show the hart halted has issued the halt request and the status read
\* and nothing after them: the last value written to 0x10 has haltreq (bit 31)
\* set.
C32_FailedHaltLeavesRequest ==
    \A i \in 1..Len(hist) :
        (tr = "tcl" /\ hist[i].name = "halt" /\ hist[i].exc = "Error: Hart failed to halt")
        => LET l == hist[i].log
               cw == ControlWrites(l)
           IN  /\ Len(l) = 2
               /\ l[1] = WriteEntry(DMCONTROL, HALTREQ.d)
               /\ l[2].op = "read" /\ l[2].addr = DMSTATUS
               /\ ShrAnd(DigitsToInt(l[2].data), 8, 3) = 0
               /\ cw # <<>> /\ BitOf(cw[Len(cw)].data, 31) = 1

\* C32 witness: a halt() of the automation session failed its verification.
C32_Witness ==
    /\ tr = "tcl"
    /\ \E i \in 1..Len(hist) :
          /\ hist[i].name = "halt" /\ hist[i].exc = "Error: Hart failed to halt"
          /\ ~hist[i].oracle.ack

\* The emitters with file output (TRUE), without (FALSE), never fail while
\* they emit, and each operation left its directives in the output.
NeverFails(writeouts) ==
    svf.writeout \in writeouts
    => /\ \A i \in 1..Len(hist) : hist[i].exc = "none"
       /\ Len(svf.out) >= Len(hist)

\* C33: an emitter made without file output emits the directives of every
\* operation and never fails while emitting, as an emitter with file output
\* does.
C33_EmitsWithoutFile == NeverFails({FALSE, TRUE})

\* The same for the emitter with file output alone.
C33_EmitsToFile == NeverFails({TRUE})

\* The tracked DCSR of the emitters with file output (TRUE), without (FALSE),
\* has the step bit (bit 2) clear between operations, and each step() is the
\* same DMI operations: DCSR written with the step bit set, the resume
\* request, DCSR written with the step bit clear.
StepBitClear(writeouts) ==
    (tr = "svf" /\ svf.writeout \in writeouts)
    => /\ BitOf(svf.DCSR, 2) = 0
       /\ \A i \in 1..Len(hist) :
              hist[i].name = "step"
              => LET l == hist[i].log
                     n == IF XLEN = 64 THEN 3 ELSE 2
                 IN  /\ hist[i].exc = "none"
                     /\ Len(l) = 2 * n + 1
                     /\ l[1] = WriteEntry(DATA0, <<4>>)
                     /\ XLEN = 64 => l[2] = WriteEntry(DATA0 + 1, Zero)
                     /\ l[n].op = "write" /\ l[n].addr = COMMAND
                     /\ BitOf(l[n].data, 16) = 1
                     /\ DigitsToInt(l[n].data) % 65536 = DCSR_REGNO
                     /\ l[n + 1] = WriteEntry(DMCONTROL, RESUMEREQ.d)
                     /\ l[n + 2] = WriteEntry(DATA0, Zero)
                     /\ XLEN = 64 => l[n + 3] = WriteEntry(DATA0 + 1, Zero)
                     /\ l[2 * n + 1] = l[n]

\* C34: the DCSR value the emitter tracks has its step bit clear before and
\* after every operation, whatever the operations, and so every step() issues
\* the same sequence: a DCSR write with the step bit set, one resume request,
\* a DCSR write with the step bit clear.
C34_StepBitClear == StepBitClear({FALSE, TRUE})

\* The same for the emitter with file output alone.
C34_StepBitClearToFile == StepBitClear({TRUE})

====
